---- MODULE Spec2Model ----
(***************************************************************************)
(* Model of the scenario execution engine of AutoFlow Studio               *)
(* (core/scenario_runner.py, class ScenarioRunner).                        *)
(*                                                                         *)
(* A scenario is a flat list of steps.  _execute_steps interprets it with  *)
(* a program counter and calls itself on slices of the list for loop, if,  *)
(* try and catch bodies; the Python call stack of _execute_steps is the    *)
(* variable `stack`, one record of locals per invocation.  A raised        *)
(* exception is the variable `exc`; it unwinds one frame per step.         *)
(* The external surface is volatile: whether an element is found and       *)
(* whether an action on it raises is chosen nondeterministically, and the  *)
(* application can die between any two steps of the engine.                *)
(***************************************************************************)
EXTENDS Integers, Sequences, FiniteSets, TLC

VARIABLES
    phase,              \* position of run_scenario: idle, running, returned, raised
    scenario,           \* scenario_steps argument of run_scenario
    data_rows,          \* rows read from the CSV file (<<>> when there is none)
    data_driven,        \* TRUE iff data_file_path names an existing file
    row_i,              \* number of rows whose execution has been started
    stack,              \* call stack of _execute_steps, innermost frame last
    exc,                \* exception being propagated, "none" when there is none
    runtime_variables,  \* self.runtime_variables
    results,            \* self.results: [summary, steps]
    alive,              \* main_window.exists()
    element_text,       \* window_text() of the edit element the steps target
    tab_selected,       \* is_selected() of the surface's tab item
    call,               \* a direct call of one of the pure helpers: arguments and result
    running_workers     \* MainWindow.running_workers: the ScenarioWorker of each slot

vars == <<phase, scenario, data_rows, data_driven, row_i, stack, exc,
          runtime_variables, results, alive, element_text, tab_selected, call,
          running_workers>>

---------------------------------------------------------------------------
(* Bounds of the model *)

MaxRetries == 2        \* the retries value of the Retry steps of the scenarios
MaxRows == 2           \* number of rows of the largest data file
MaxLoop == 2           \* the iterations value of the loops of the scenarios
MaxLen == 7            \* length of the longest step list given to the block scans
MaxPath == 3           \* length of the longest path resolved directly
MaxSlots == 2          \* number of slots of the parallel runner panel
MaxTyped == 2          \* number of texts typed into the element of the fallback chains
MaxText == 2           \* number of tokens of the longest text given to substitution

---------------------------------------------------------------------------
(* Strings, texts and variables *)

Names == {"x", "y"}
Values == {"hello", "bye"}

\* A key that a dict does not hold maps to Undef
Undef == "<undef>"

NoneRow == [isNone |-> TRUE, cols |-> [k \in Names |-> Undef]]
Row(f) == [isNone |-> FALSE, cols |-> f]
EmptyDict == [k \in Names |-> Undef]

\* A text is the scenario author's string, as the sequence of the pieces the
\* pattern \{\{\s*(.*?)\s*\}\} cuts it into: literal runs and placeholders.
\* raw is the piece as written, s is the literal run or the stripped key.
Lit(s) == [ph |-> FALSE, s |-> s, raw |-> s]
Ph(n) == [ph |-> TRUE, s |-> n, raw |-> "{{" \o n \o "}}"]
PhSp(n) == [ph |-> TRUE, s |-> n, raw |-> "{{ " \o n \o " }}"]

\* isinstance(text, str) is false for this one value
NonStr == <<[ph |-> FALSE, s |-> "<int>", raw |-> "<int>"]>>

RECURSIVE Render(_)
\* the Python string a text stands for
Render(text) ==
    IF text = <<>> THEN "" ELSE Head(text).raw \o Render(Tail(text))


\* Result of a call that may raise: the exception kind, or "none" and a value
Ok(v) == [exc |-> "none", value |-> v, key |-> ""]
Raise(e, k) == [exc |-> e, value |-> "", key |-> k]

IsEmptyDict(d) == \A k \in Names : d[k] = Undef

\* Replacer with the two lookups swapped: the data row is asked first
Replacer_RowFirst(key, data_row, rv) ==
    IF ~data_row.isNone /\ ~IsEmptyDict(data_row.cols) /\ data_row.cols[key] # Undef
    THEN Ok(data_row.cols[key])
    ELSE IF rv[key] # Undef THEN Ok(rv[key])
    ELSE Raise("VariableNotFoundError", key)

\* replacer() of _resolve_variables: the value one placeholder is replaced by
Replacer(key, data_row, rv) ==
    IF rv[key] # Undef THEN Ok(rv[key])
    ELSE IF ~data_row.isNone /\ ~IsEmptyDict(data_row.cols) /\ data_row.cols[key] # Undef
         THEN Ok(data_row.cols[key])
    ELSE Raise("VariableNotFoundError", key)

RECURSIVE ReSub(_, _, _)
\* re.sub(pattern, replacer, text): pieces left to right, the first raise ends it
ReSub(text, data_row, rv) ==
    IF text = <<>> THEN Ok("")
    ELSE LET h == Head(text)
             piece == IF h.ph THEN Replacer(h.s, data_row, rv) ELSE Ok(h.raw)
         IN IF piece.exc # "none" THEN piece
            ELSE LET rest == ReSub(Tail(text), data_row, rv)
                 IN IF rest.exc # "none" THEN rest
                    ELSE Ok(piece.value \o rest.value)

\* ResolveVariables that hands every text back as it is
ResolveVariables_LeavesText(text, data_row, rv) == Ok(Render(text))

\* ScenarioRunner._resolve_variables
ResolveVariables(text, data_row, rv) ==
    IF (data_row.isNone /\ IsEmptyDict(rv)) \/ text = NonStr
    THEN Ok(Render(text))
    ELSE ReSub(text, data_row, rv)

---------------------------------------------------------------------------
(* Steps *)

\* Python indexes from 0
At(steps, i) == steps[i + 1]
Slice(steps, a, b) == SubSeq(steps, a + 1, b)

NoCondition == [type |-> "", target |-> <<>>]
NoParams == [text |-> <<>>, variable_name |-> ""]
\* a step whose dict has no "onError" key
NoPolicy == [method |-> "absent", retries |-> <<>>]
Stop == [method |-> "stop", retries |-> <<>>]
Continue == [method |-> "continue", retries |-> <<>>]
Retry(n) == [method |-> "retry", retries |-> <<n>>]
RetryDefault == [method |-> "retry", retries |-> <<>>]

Desc(auto_id, control_type, title) ==
    [auto_id |-> auto_id, control_type |-> control_type, title |-> title]

ActionStep(id, action, path, params, onError) ==
    [id |-> id, type |-> "action", action |-> action, control_type |-> "",
     path |-> path, params |-> params, onError |-> onError,
     iterations |-> <<>>, condition |-> NoCondition]

ControlStep(id, control_type) ==
    [id |-> id, type |-> "control", action |-> "", control_type |-> control_type,
     path |-> <<>>, params |-> NoParams, onError |-> NoPolicy,
     iterations |-> <<>>, condition |-> NoCondition]

StartLoopStep(id, n) == [ControlStep(id, "start_loop") EXCEPT !.iterations = <<n>>]
IfStep(id, type, target) ==
    [ControlStep(id, "if_condition") EXCEPT !.condition = [type |-> type, target |-> target]]
WaitStep(id, type, target, onError) ==
    [ControlStep(id, "wait_for_condition") EXCEPT
        !.condition = [type |-> type, target |-> target], !.onError = onError]

IsControl(step, control_type) ==
    step.type = "control" /\ step.control_type = control_type

---------------------------------------------------------------------------
(* The block scans *)

NoIndex == [exc |-> "SyntaxError", sep |-> -1, end |-> -1]

RECURSIVE ScanMatchingEnd(_, _, _, _, _)
\* the for loop of _find_matching_end, from index i with the depth so far
ScanMatchingEnd(steps, i, depth, start_kw, end_kw) ==
    IF i >= Len(steps) THEN NoIndex
    ELSE LET step == At(steps, i)
             d == IF step.type # "control" THEN depth
                  ELSE IF step.control_type = start_kw THEN depth + 1
                  ELSE IF step.control_type = end_kw THEN depth - 1
                  ELSE depth
         IN IF step.type = "control" /\ d = 0
            THEN [exc |-> "none", sep |-> -1, end |-> i]
            ELSE ScanMatchingEnd(steps, i + 1, d, start_kw, end_kw)

\* ScenarioRunner._find_matching_end
FindMatchingEnd(steps, start_index, start_kw, end_kw) ==
    ScanMatchingEnd(steps, start_index + 1, 1, start_kw, end_kw)

RECURSIVE ScanElseOrEndIf(_, _, _)
\* the for loop of _find_else_or_end_if; at an else of depth 1 it calls itself
\* from the else to find the end_if
ScanElseOrEndIf(steps, i, depth) ==
    IF i >= Len(steps) THEN NoIndex
    ELSE LET step == At(steps, i)
             d == IF step.type # "control" THEN depth
                  ELSE IF step.control_type = "if_condition" THEN depth + 1
                  ELSE IF step.control_type = "end_if" THEN depth - 1
                  ELSE depth
         IN IF step.type = "control" /\ d = 0
            THEN [exc |-> "none", sep |-> -1, end |-> i]
            ELSE IF step.type = "control" /\ d = 1 /\ step.control_type = "else"
            THEN LET r == ScanElseOrEndIf(steps, i + 1, 1)
                 IN IF r.exc # "none" THEN r
                    ELSE [exc |-> "none", sep |-> i, end |-> r.end]
            ELSE ScanElseOrEndIf(steps, i + 1, d)

RECURSIVE ScanFirstElse(_, _, _)
ScanFirstElse(steps, i, depth) ==
    IF i >= Len(steps) THEN NoIndex
    ELSE LET step == At(steps, i)
             d == IF step.type # "control" THEN depth
                  ELSE IF step.control_type = "if_condition" THEN depth + 1
                  ELSE IF step.control_type = "end_if" THEN depth - 1
                  ELSE depth
         IN IF step.type = "control" /\ d = 0
            THEN [exc |-> "none", sep |-> -1, end |-> i]
            ELSE IF step.type = "control" /\ step.control_type = "else"
            THEN LET r == ScanElseOrEndIf(steps, i + 1, d)
                 IN IF r.exc # "none" THEN r
                    ELSE [exc |-> "none", sep |-> i, end |-> r.end]
            ELSE ScanFirstElse(steps, i + 1, d)

\* FindElseOrEndIf without the depth test on else: the first else met is taken
FindElseOrEndIf_AnyDepthElse(steps, start_index) == ScanFirstElse(steps, start_index + 1, 1)

\* ScenarioRunner._find_else_or_end_if
FindElseOrEndIf(steps, start_index) == ScanElseOrEndIf(steps, start_index + 1, 1)

RECURSIVE ScanCatchOrEndTry(_, _, _)
\* the for loop of _find_catch_or_end_try
ScanCatchOrEndTry(steps, i, depth) ==
    IF i >= Len(steps) THEN NoIndex
    ELSE LET step == At(steps, i)
             d == IF step.type # "control" THEN depth
                  ELSE IF step.control_type = "try_catch_start" THEN depth + 1
                  ELSE IF step.control_type = "try_catch_end" THEN depth - 1
                  ELSE depth
         IN IF step.type = "control" /\ d = 0
            THEN [exc |-> "none", sep |-> -1, end |-> i]
            ELSE IF step.type = "control" /\ d = 1 /\ step.control_type = "catch_separator"
            THEN LET r == ScanCatchOrEndTry(steps, i + 1, 1)
                 IN IF r.exc # "none" THEN r
                    ELSE [exc |-> "none", sep |-> i, end |-> r.end]
            ELSE ScanCatchOrEndTry(steps, i + 1, d)

\* ScenarioRunner._find_catch_or_end_try
FindCatchOrEndTry(steps, start_index) == ScanCatchOrEndTry(steps, start_index + 1, 1)


---------------------------------------------------------------------------
(* Frames of _execute_steps and the results *)

\* The locals of one invocation of _execute_steps.  at is the position in its
\* body: "step" at the head of the while loop, "action" inside the attempt loop
\* of _execute_action, "loop" at the head of the for loop of start_loop, and
\* "if", "try", "catch" while the call executing that body has not returned.
NewFrame(steps, data_row, iteration_num) ==
    [steps |-> steps, data_row |-> data_row, iteration_num |-> iteration_num,
     pc |-> 0, at |-> "step",
     i |-> 0, attempts |-> 0, last_exception |-> "None",
     loop_i |-> 0, loop_count |-> 0, body |-> <<>>,
     sep_index |-> -1, end_index |-> -1, condition_result |-> "None",
     lookups |-> <<>>]

Top == stack[Len(stack)]
SetTop(f) == [stack EXCEPT ![Len(stack)] = f]
Pop(st) == SubSeq(st, 1, Len(st) - 1)

NoSummary ==
    [status |-> "None", total_steps |-> 0, passed_steps |-> 0,
     failed_steps |-> 0, data_iterations |-> 0]

\* self.results = None
NoResults == [summary |-> NoSummary, steps |-> <<>>]

Count(steps, status) == Cardinality({k \in 1..Len(steps) : steps[k].status = status})

\* RecordStepResult that tags every entry with iteration 1
RecordStepResult_IterationOne(res, step, status, iteration_num, details) ==
    [res EXCEPT !.steps = Append(@,
        [id |-> step.id, iteration |-> 1, status |-> status,
         details |-> details])]

\* ScenarioRunner._record_step_result: the entry appended to results["steps"]
RecordStepResult(res, step, status, iteration_num, details) ==
    [res EXCEPT !.steps = Append(@,
        [id |-> step.id, iteration |-> iteration_num, status |-> status,
         details |-> details])]

\* Finally counting the passed steps under a status no StepResult carries
Finally_PassedMiscounted(res) ==
    [res EXCEPT !.summary.total_steps = Len(res.steps),
                !.summary.passed_steps = Count(res.steps, "passed"),
                !.summary.failed_steps = Count(res.steps, "failure")]

\* the finally clause of run_scenario
Finally(res) ==
    [res EXCEPT !.summary.total_steps = Len(res.steps),
                !.summary.passed_steps = Count(res.steps, "success"),
                !.summary.failed_steps = Count(res.steps, "failure")]

---------------------------------------------------------------------------
(* One attempt of an action *)

DefaultRetries == 3

\* step.get("onError", {"method": "stop"})
OnErrorPolicy(step) == IF step.onError.method = "absent" THEN Stop ELSE step.onError

\* Attempts with the retries counted on top of the first attempt
Attempts_RetryOneMore(step) ==
    LET on_error_policy == OnErrorPolicy(step)
    IN IF on_error_policy.method = "retry"
       THEN (IF on_error_policy.retries = <<>> THEN DefaultRetries
             ELSE on_error_policy.retries[1]) + 1
       ELSE 1

\* Attempts with one attempt made whatever the retries value
Attempts_AtLeastOnce(step) ==
    LET on_error_policy == OnErrorPolicy(step)
        retries == IF on_error_policy.retries = <<>> THEN DefaultRetries
                   ELSE on_error_policy.retries[1]
    IN IF on_error_policy.method = "retry"
       THEN (IF retries < 1 THEN 1 ELSE retries)
       ELSE 1

\* attempts of _execute_action
Attempts(step) ==
    LET on_error_policy == OnErrorPolicy(step)
    IN IF on_error_policy.method = "retry"
       THEN (IF on_error_policy.retries = <<>> THEN DefaultRetries
             ELSE on_error_policy.retries[1])
       ELSE 1

HasCriteria(props) == props.auto_id # "" \/ props.control_type # "" \/ props.title # ""

RECURSIVE FindParents(_, _, _, _)
\* the for loop of _find_element_dynamically over path[:-1], from parent i.
\* fail_level is the surface's choice for this attempt: the path level
\* (1..Len(path)) whose element does not show up in time, 0 when every level shows
\* up, Len(path) + 1 when the action call itself raises.
FindParents(path, i, fail_level, selected) ==
    LET out(e, looked) == [exc |-> e, selected |-> selected, lookups |-> looked,
                           selects |-> <<>>]
    IN IF i >= Len(path) - 1 THEN out("none", <<>>)
       ELSE LET parent_props == At(path, i)
            IN IF ~HasCriteria(parent_props) THEN out("ValueError", <<>>)
               ELSE IF fail_level = i + 1 THEN out("TimeoutError", <<i>>)
               ELSE LET tab == parent_props.control_type = "TabItem"
                        rest == FindParents(path, i + 1, fail_level, selected \/ tab)
                    IN [rest EXCEPT !.lookups = <<i>> \o @,
                                    !.selects = IF tab /\ ~selected THEN <<i>> \o @
                                                ELSE @]

\* no element is returned
NoTarget == [parent |-> <<>>, criteria |-> Desc("", "", "")]

\* _find_element_dynamically that puts the tab it selected back as it was
FindElementDynamically_RestoresTab(path, fail_level, selected) ==
    LET r == FindParents(path, 0, fail_level, selected)
        raised(e) == [exc |-> e, selected |-> selected, lookups |-> r.lookups,
                      selects |-> r.selects, element |-> NoTarget]
    IN IF r.exc # "none" THEN raised(r.exc)
       ELSE IF ~HasCriteria(At(path, Len(path) - 1)) THEN raised("ValueError")
       ELSE [exc |-> "none", selected |-> selected, lookups |-> r.lookups,
             selects |-> r.selects,
             element |-> [parent |-> SubSeq(path, 1, Len(path) - 1),
                          criteria |-> At(path, Len(path) - 1)]]

\* _find_element_dynamically that walks the path once more from the main
\* window when a parent did not show up
FindElementDynamically_RestartsFromRoot(path, fail_level, selected) ==
    LET first == FindParents(path, 0, fail_level, selected)
        again == FindParents(path, 0, fail_level, first.selected)
        r == IF first.exc = "TimeoutError"
             THEN [again EXCEPT !.lookups = first.lookups \o @,
                                !.selects = first.selects \o @]
             ELSE first
        raised(e) == [exc |-> e, selected |-> r.selected, lookups |-> r.lookups,
                      selects |-> r.selects, element |-> NoTarget]
    IN IF r.exc # "none" THEN raised(r.exc)
       ELSE IF ~HasCriteria(At(path, Len(path) - 1)) THEN raised("ValueError")
       ELSE [exc |-> "none", selected |-> r.selected, lookups |-> r.lookups,
             selects |-> r.selects,
             element |-> [parent |-> SubSeq(path, 1, Len(path) - 1),
                          criteria |-> At(path, Len(path) - 1)]]

\* ScenarioRunner._find_element_dynamically: the error raised, the tab's
\* selection afterwards, the path levels looked up and selected in order, and
\* the element returned: the final criteria under the chain of parents found
FindElementDynamically(path, fail_level, selected) ==
    LET r == FindParents(path, 0, fail_level, selected)
        raised(e) == [exc |-> e, selected |-> r.selected, lookups |-> r.lookups,
                      selects |-> r.selects, element |-> NoTarget]
    IN IF r.exc # "none" THEN raised(r.exc)
       ELSE IF ~HasCriteria(At(path, Len(path) - 1)) THEN raised("ValueError")
       ELSE [exc |-> "none", selected |-> r.selected, lookups |-> r.lookups,
             selects |-> r.selects,
             element |-> [parent |-> SubSeq(path, 1, Len(path) - 1),
                          criteria |-> At(path, Len(path) - 1)]]

\* TryAction that clicks the element when the action name is none it knows
TryAction_ClicksOnUnknownAction(step, data_row, fail_level, rv, text, selected) ==
    LET out(e, v, t, s) == [exc |-> e, rv |-> v, text |-> t, selected |-> s,
                            resolved |-> <<>>]
        path == step.path
        params == step.params
    IN IF path = <<>> THEN out("ValueError", rv, text, selected)
       ELSE LET found == FindElementDynamically(path, fail_level, selected)
                raises == fail_level = Len(path) + 1
                done ==
                  IF found.exc # "none" THEN out(found.exc, rv, text, found.selected)
                  ELSE IF fail_level = Len(path)
                       THEN out("TimeoutError", rv, text, found.selected)
                  ELSE IF step.action \in {"click", "double_click"}
                       THEN out(IF raises THEN "ActionError" ELSE "none", rv, text,
                                found.selected)
                  ELSE IF step.action = "set_text"
                       THEN LET text_to_set == ResolveVariables(params.text, data_row, rv)
                            IN IF text_to_set.exc # "none"
                               THEN out(text_to_set.exc, rv, text, found.selected)
                               ELSE IF raises
                               THEN out("ActionError", rv, text, found.selected)
                               ELSE out("none", rv, text_to_set.value, found.selected)
                  ELSE IF step.action = "get_text"
                       THEN IF params.variable_name = ""
                            THEN out("ValueError", rv, text, found.selected)
                            ELSE IF raises
                            THEN out("ActionError", rv, text, found.selected)
                            ELSE out("none", [rv EXCEPT ![params.variable_name] = text],
                                     text, found.selected)
                  ELSE out(IF raises THEN "ActionError" ELSE "none", rv, text,
                           found.selected)
            IN [done EXCEPT !.resolved = <<found.lookups>>]

\* the try block of _execute_action: one attempt, [exc, rv, text, selected] and
\* resolved: the path levels looked up by each call of _find_element_dynamically
TryAction(step, data_row, fail_level, rv, text, selected) ==
    LET out(e, v, t, s) == [exc |-> e, rv |-> v, text |-> t, selected |-> s,
                            resolved |-> <<>>]
        path == step.path
        params == step.params
    IN IF path = <<>> THEN out("ValueError", rv, text, selected)
       ELSE LET found == FindElementDynamically(path, fail_level, selected)
                raises == fail_level = Len(path) + 1
                done ==
                  IF found.exc # "none" THEN out(found.exc, rv, text, found.selected)
                  ELSE IF fail_level = Len(path)
                       THEN out("TimeoutError", rv, text, found.selected)
                  ELSE IF step.action \in {"click", "double_click"}
                       THEN out(IF raises THEN "ActionError" ELSE "none", rv, text,
                                found.selected)
                  ELSE IF step.action = "set_text"
                       THEN LET text_to_set == ResolveVariables(params.text, data_row, rv)
                            IN IF text_to_set.exc # "none"
                               THEN out(text_to_set.exc, rv, text, found.selected)
                               ELSE IF raises
                               THEN out("ActionError", rv, text, found.selected)
                               ELSE out("none", rv, text_to_set.value, found.selected)
                  ELSE IF step.action = "get_text"
                       THEN IF params.variable_name = ""
                            THEN out("ValueError", rv, text, found.selected)
                            ELSE IF raises
                            THEN out("ActionError", rv, text, found.selected)
                            ELSE out("none", [rv EXCEPT ![params.variable_name] = text],
                                     text, found.selected)
                  ELSE out("none", rv, text, found.selected)
            IN [done EXCEPT !.resolved = <<found.lookups>>]


---------------------------------------------------------------------------
(* run_scenario *)

NoCall == [fn |-> "", steps |-> <<>>, start_index |-> 0, text |-> <<>>,
           data_row |-> NoneRow, done |-> FALSE, exc |-> "none",
           sep |-> -1, end |-> -1, value |-> ""]

\* RunScenario that goes on with the trace of the previous run
RunScenario_KeepsTrace(scenario_steps, data) ==
    /\ phase \in {"idle", "returned", "raised"}
    /\ phase' = "running"
    /\ scenario' = scenario_steps
    /\ runtime_variables' = EmptyDict
    /\ exc' = "none"
    /\ row_i' = 0
    /\ data_driven' = data.exists
    /\ IF data.exists
       THEN /\ data_rows' = data.rows
            /\ results' = [summary |-> [NoSummary EXCEPT !.status = "In Progress",
                                            !.data_iterations = Len(data.rows)],
                           steps |-> results.steps]
            /\ stack' = <<>>
       ELSE /\ data_rows' = <<>>
            /\ results' = [summary |-> [NoSummary EXCEPT !.status = "In Progress",
                                            !.data_iterations = 1],
                           steps |-> results.steps]
            /\ stack' = <<NewFrame(scenario_steps, NoneRow, 1)>>
    /\ UNCHANGED <<alive, element_text, tab_selected, call, running_workers>>

\* run_scenario up to the first call of _execute_steps.  data is the content of
\* the CSV file: [exists, rows].
RunScenario(scenario_steps, data) ==
    /\ phase \in {"idle", "returned", "raised"}
    /\ phase' = "running"
    /\ scenario' = scenario_steps
    /\ runtime_variables' = EmptyDict
    /\ exc' = "none"
    /\ row_i' = 0
    /\ data_driven' = data.exists
    /\ IF data.exists
       THEN /\ data_rows' = data.rows
            /\ results' = [summary |-> [NoSummary EXCEPT !.status = "In Progress",
                                            !.data_iterations = Len(data.rows)],
                           steps |-> <<>>]
            /\ stack' = <<>>
       ELSE /\ data_rows' = <<>>
            /\ results' = [summary |-> [NoSummary EXCEPT !.status = "In Progress",
                                            !.data_iterations = 1],
                           steps |-> <<>>]
            /\ stack' = <<NewFrame(scenario_steps, NoneRow, 1)>>
    /\ UNCHANGED <<alive, element_text, tab_selected, call, running_workers>>

\* NextRow without self.runtime_variables.clear()
NextRow_KeepsVariables ==
    /\ phase = "running" /\ exc = "none" /\ stack = <<>>
    /\ row_i < Len(data_rows)
    /\ stack' = <<NewFrame(scenario, Row(data_rows[row_i + 1]), row_i + 1)>>
    /\ row_i' = row_i + 1
    /\ UNCHANGED <<phase, scenario, data_rows, data_driven, exc, results, alive,
                   runtime_variables, element_text, tab_selected, call,
                   running_workers>>

\* NextRow with the try statement inside the for loop: an error of one row is
\* dropped and the next row is executed
NextRow_GoesOnAfterError ==
    /\ phase = "running" /\ stack = <<>>
    /\ row_i < Len(data_rows)
    /\ exc' = "none"
    /\ runtime_variables' = EmptyDict
    /\ stack' = <<NewFrame(scenario, Row(data_rows[row_i + 1]), row_i + 1)>>
    /\ row_i' = row_i + 1
    /\ UNCHANGED <<phase, scenario, data_rows, data_driven, results, alive,
                   element_text, tab_selected, call, running_workers>>

\* one turn of "for i, row in enumerate(data_rows)"
NextRow ==
    /\ phase = "running" /\ exc = "none" /\ stack = <<>>
    /\ row_i < Len(data_rows)
    /\ runtime_variables' = EmptyDict
    /\ stack' = <<NewFrame(scenario, Row(data_rows[row_i + 1]), row_i + 1)>>
    /\ row_i' = row_i + 1
    /\ UNCHANGED <<phase, scenario, data_rows, data_driven, exc, results, alive,
                   element_text, tab_selected, call, running_workers>>

\* FinishSuccess that takes a run with a failed step for a failed run
FinishSuccess_FailsOnFailedSteps ==
    /\ phase = "running" /\ exc = "none" /\ stack = <<>>
    /\ row_i >= Len(data_rows)
    /\ results' = Finally([results EXCEPT !.summary.status =
                              IF Count(results.steps, "failure") > 0 THEN "Failure"
                              ELSE "Success"])
    /\ phase' = "returned"
    /\ UNCHANGED <<scenario, data_rows, data_driven, row_i, stack, exc,
                   runtime_variables, alive, element_text, tab_selected, call,
                   running_workers>>

\* the step list has been executed for the last time: status, finally, return
FinishSuccess ==
    /\ phase = "running" /\ exc = "none" /\ stack = <<>>
    /\ row_i >= Len(data_rows)
    /\ results' = Finally([results EXCEPT !.summary.status = "Success"])
    /\ phase' = "returned"
    /\ UNCHANGED <<scenario, data_rows, data_driven, row_i, stack, exc,
                   runtime_variables, alive, element_text, tab_selected, call,
                   running_workers>>

\* FinishFailure that leaves the status as it is
FinishFailure_KeepsStatus ==
    /\ phase = "running" /\ exc # "none" /\ stack = <<>>
    /\ results' = Finally(results)
    /\ phase' = "raised"
    /\ UNCHANGED <<scenario, data_rows, data_driven, row_i, stack, exc,
                   runtime_variables, alive, element_text, tab_selected, call,
                   running_workers>>

\* the except clause of run_scenario: status, finally, raise
FinishFailure ==
    /\ phase = "running" /\ exc # "none" /\ stack = <<>>
    /\ results' = Finally([results EXCEPT !.summary.status = "Failure"])
    /\ phase' = "raised"
    /\ UNCHANGED <<scenario, data_rows, data_driven, row_i, stack, exc,
                   runtime_variables, alive, element_text, tab_selected, call,
                   running_workers>>

---------------------------------------------------------------------------
(* _execute_steps *)

\* the head of the while loop with a step left to evaluate
AtStep ==
    /\ phase = "running" /\ exc = "none" /\ stack # <<>>
    /\ Top.at = "step" /\ Top.pc < Len(Top.steps)

CurStep == At(Top.steps, Top.pc)

Advance(f) == [f EXCEPT !.pc = f.pc + 1, !.at = "step"]

\* _check_app_is_alive finds the application gone
CheckAppIsAlive ==
    /\ AtStep /\ ~alive
    /\ exc' = "TargetAppClosedError"
    /\ UNCHANGED <<phase, scenario, data_rows, data_driven, row_i, stack,
                   runtime_variables, results, alive, element_text, tab_selected, call,
                   running_workers>>

\* an action step is met: _execute_action up to its attempt loop
ExecuteAction ==
    /\ AtStep /\ alive
    /\ CurStep.type = "action"
    /\ stack' = SetTop([Top EXCEPT !.at = "action", !.i = 0,
                            !.attempts = Attempts(CurStep), !.last_exception = "None",
                            !.lookups = <<>>])
    /\ UNCHANGED <<phase, scenario, data_rows, data_driven, row_i, exc,
                   runtime_variables, results, alive, element_text, tab_selected, call,
                   running_workers>>

\* Attempt with _record_step_result called in the except clause of each attempt
Attempt_RecordsEveryFailure ==
    /\ phase = "running" /\ exc = "none" /\ stack # <<>>
    /\ Top.at = "action" /\ Top.i < Top.attempts
    /\ \E fail_level \in 0..(Len(CurStep.path) + 1) :
          LET r == TryAction(CurStep, Top.data_row, fail_level, runtime_variables,
                             element_text, tab_selected)
          IN /\ runtime_variables' = r.rv
             /\ element_text' = r.text
             /\ tab_selected' = r.selected
             /\ IF r.exc = "none"
                THEN /\ results' = RecordStepResult(results, CurStep, "success",
                                                    Top.iteration_num, "")
                     /\ stack' = SetTop(Advance([Top EXCEPT !.lookups = @ \o r.resolved]))
                ELSE /\ results' = RecordStepResult(results, CurStep, "failure",
                                                    Top.iteration_num, r.exc)
                     /\ stack' = SetTop([Top EXCEPT !.last_exception = r.exc,
                                                    !.i = Top.i + 1,
                                                    !.lookups = @ \o r.resolved])
    /\ UNCHANGED <<phase, scenario, data_rows, data_driven, row_i, exc, alive, call,
                   running_workers>>

\* Attempt that raises an undefined-variable error at once, past the attempt
\* loop, the record of the failure and the policy
Attempt_UndefinedVariableIsFatal ==
    /\ phase = "running" /\ exc = "none" /\ stack # <<>>
    /\ Top.at = "action" /\ Top.i < Top.attempts
    /\ \E fail_level \in 0..(Len(CurStep.path) + 1) :
          LET r == TryAction(CurStep, Top.data_row, fail_level, runtime_variables,
                             element_text, tab_selected)
          IN /\ runtime_variables' = r.rv
             /\ element_text' = r.text
             /\ tab_selected' = r.selected
             /\ IF r.exc = "none"
                THEN /\ results' = RecordStepResult(results, CurStep, "success",
                                                    Top.iteration_num, "")
                     /\ stack' = SetTop(Advance([Top EXCEPT !.lookups = @ \o r.resolved]))
                     /\ exc' = exc
                ELSE IF r.exc = "VariableNotFoundError"
                THEN /\ results' = results
                     /\ stack' = stack
                     /\ exc' = r.exc
                ELSE /\ results' = results
                     /\ stack' = SetTop([Top EXCEPT !.last_exception = r.exc,
                                                    !.i = Top.i + 1,
                                                    !.lookups = @ \o r.resolved])
                     /\ exc' = exc
    /\ UNCHANGED <<phase, scenario, data_rows, data_driven, row_i, alive, call,
                   running_workers>>

\* Attempt with a liveness check at the head of every turn of the attempt loop
Attempt_ChecksLiveness ==
    /\ phase = "running" /\ exc = "none" /\ stack # <<>>
    /\ Top.at = "action" /\ Top.i < Top.attempts
    /\ IF ~alive
       THEN /\ exc' = "TargetAppClosedError"
            /\ UNCHANGED <<stack, results, runtime_variables, element_text,
                           tab_selected>>
       ELSE /\ exc' = exc
            /\ \E fail_level \in 0..(Len(CurStep.path) + 1) :
                  LET r == TryAction(CurStep, Top.data_row, fail_level,
                                     runtime_variables, element_text, tab_selected)
                  IN /\ runtime_variables' = r.rv
                     /\ element_text' = r.text
                     /\ tab_selected' = r.selected
                     /\ IF r.exc = "none"
                        THEN /\ results' = RecordStepResult(results, CurStep, "success",
                                                            Top.iteration_num, "")
                             /\ stack' = SetTop(Advance([Top EXCEPT
                                                            !.lookups = @ \o r.resolved]))
                        ELSE /\ results' = results
                             /\ stack' = SetTop([Top EXCEPT !.last_exception = r.exc,
                                                            !.i = Top.i + 1,
                                                            !.lookups = @ \o r.resolved])
    /\ UNCHANGED <<phase, scenario, data_rows, data_driven, row_i, alive, call,
                   running_workers>>

\* one turn of "for i in range(attempts)"
Attempt ==
    /\ phase = "running" /\ exc = "none" /\ stack # <<>>
    /\ Top.at = "action" /\ Top.i < Top.attempts
    /\ \E fail_level \in 0..(Len(CurStep.path) + 1) :
          LET r == TryAction(CurStep, Top.data_row, fail_level, runtime_variables,
                             element_text, tab_selected)
          IN /\ runtime_variables' = r.rv
             /\ element_text' = r.text
             /\ tab_selected' = r.selected
             /\ IF r.exc = "none"
                THEN /\ results' = RecordStepResult(results, CurStep, "success",
                                                    Top.iteration_num, "")
                     /\ stack' = SetTop(Advance([Top EXCEPT !.lookups = @ \o r.resolved]))
                ELSE /\ results' = results
                     /\ stack' = SetTop([Top EXCEPT !.last_exception = r.exc,
                                                    !.i = Top.i + 1,
                                                    !.lookups = @ \o r.resolved])
    /\ UNCHANGED <<phase, scenario, data_rows, data_driven, row_i, exc, alive, call,
                   running_workers>>

\* ActionFailed that raises whatever the policy
ActionFailed_AlwaysRaises ==
    /\ phase = "running" /\ exc = "none" /\ stack # <<>>
    /\ Top.at = "action" /\ Top.i >= Top.attempts
    /\ results' = RecordStepResult(results, CurStep, "failure", Top.iteration_num,
                                   Top.last_exception)
    /\ exc' = Top.last_exception
    /\ stack' = stack
    /\ UNCHANGED <<phase, scenario, data_rows, data_driven, row_i,
                   runtime_variables, alive, element_text, tab_selected, call,
                   running_workers>>

\* ActionFailed that raises under no policy
ActionFailed_NeverRaises ==
    /\ phase = "running" /\ exc = "none" /\ stack # <<>>
    /\ Top.at = "action" /\ Top.i >= Top.attempts
    /\ results' = RecordStepResult(results, CurStep, "failure", Top.iteration_num,
                                   Top.last_exception)
    /\ exc' = exc
    /\ stack' = SetTop(Advance(Top))
    /\ UNCHANGED <<phase, scenario, data_rows, data_driven, row_i,
                   runtime_variables, alive, element_text, tab_selected, call,
                   running_workers>>

\* the attempts are used up: the failure is recorded and the policy applied
ActionFailed ==
    /\ phase = "running" /\ exc = "none" /\ stack # <<>>
    /\ Top.at = "action" /\ Top.i >= Top.attempts
    /\ results' = RecordStepResult(results, CurStep, "failure", Top.iteration_num,
                                   Top.last_exception)
    /\ IF OnErrorPolicy(CurStep).method = "stop"
       THEN /\ exc' = Top.last_exception
            /\ stack' = stack
       ELSE /\ exc' = exc
            /\ stack' = SetTop(Advance(Top))
    /\ UNCHANGED <<phase, scenario, data_rows, data_driven, row_i,
                   runtime_variables, alive, element_text, tab_selected, call,
                   running_workers>>

\* StartLoop that steps over a start_loop whose end_loop is missing
StartLoop_IgnoresMissingEnd ==
    /\ AtStep /\ alive
    /\ IsControl(CurStep, "start_loop")
    /\ LET m == FindMatchingEnd(Top.steps, Top.pc, "start_loop", "end_loop")
       IN IF m.exc # "none"
          THEN /\ exc' = exc
               /\ stack' = SetTop(Advance(Top))
          ELSE /\ exc' = exc
               /\ stack' = SetTop([Top EXCEPT
                     !.at = "loop", !.end_index = m.end, !.loop_i = 0,
                     !.body = Slice(Top.steps, Top.pc + 1, m.end),
                     !.loop_count = IF CurStep.iterations = <<>> THEN 1
                                    ELSE CurStep.iterations[1]])
    /\ UNCHANGED <<phase, scenario, data_rows, data_driven, row_i,
                   runtime_variables, results, alive, element_text, tab_selected, call,
                   running_workers>>

\* start_loop: the matching end_loop is looked up and the for loop entered
StartLoop ==
    /\ AtStep /\ alive
    /\ IsControl(CurStep, "start_loop")
    /\ LET m == FindMatchingEnd(Top.steps, Top.pc, "start_loop", "end_loop")
       IN IF m.exc # "none"
          THEN /\ exc' = m.exc
               /\ stack' = stack
          ELSE /\ exc' = exc
               /\ stack' = SetTop([Top EXCEPT
                     !.at = "loop", !.end_index = m.end, !.loop_i = 0,
                     !.body = Slice(Top.steps, Top.pc + 1, m.end),
                     !.loop_count = IF CurStep.iterations = <<>> THEN 1
                                    ELSE CurStep.iterations[1]])
    /\ UNCHANGED <<phase, scenario, data_rows, data_driven, row_i,
                   runtime_variables, results, alive, element_text, tab_selected, call,
                   running_workers>>

\* LoopNext that empties the Variable Store before each turn
LoopNext_ClearsVariables ==
    /\ phase = "running" /\ exc = "none" /\ stack # <<>>
    /\ Top.at = "loop"
    /\ IF Top.loop_i < Top.loop_count
       THEN stack' = Append(SetTop([Top EXCEPT !.loop_i = Top.loop_i + 1]),
                            NewFrame(Top.body, Top.data_row, Top.iteration_num))
       ELSE stack' = SetTop([Top EXCEPT !.pc = Top.end_index + 1, !.at = "step"])
    /\ runtime_variables' = EmptyDict
    /\ UNCHANGED <<phase, scenario, data_rows, data_driven, row_i, exc,
                   results, alive, element_text, tab_selected, call, running_workers>>

\* LoopNext with one turn too many
LoopNext_RunsOnceMore ==
    /\ phase = "running" /\ exc = "none" /\ stack # <<>>
    /\ Top.at = "loop"
    /\ IF Top.loop_i <= Top.loop_count
       THEN stack' = Append(SetTop([Top EXCEPT !.loop_i = Top.loop_i + 1]),
                            NewFrame(Top.body, Top.data_row, Top.iteration_num))
       ELSE stack' = SetTop([Top EXCEPT !.pc = Top.end_index + 1, !.at = "step"])
    /\ UNCHANGED <<phase, scenario, data_rows, data_driven, row_i, exc,
                   runtime_variables, results, alive, element_text, tab_selected, call,
                   running_workers>>

\* one turn of "for i in range(loop_count)", or its end
LoopNext ==
    /\ phase = "running" /\ exc = "none" /\ stack # <<>>
    /\ Top.at = "loop"
    /\ IF Top.loop_i < Top.loop_count
       THEN stack' = Append(SetTop([Top EXCEPT !.loop_i = Top.loop_i + 1]),
                            NewFrame(Top.body, Top.data_row, Top.iteration_num))
       ELSE stack' = SetTop([Top EXCEPT !.pc = Top.end_index + 1, !.at = "step"])
    /\ UNCHANGED <<phase, scenario, data_rows, data_driven, row_i, exc,
                   runtime_variables, results, alive, element_text, tab_selected, call,
                   running_workers>>


\* ScenarioRunner._check_condition; exists is what the surface answers to
\* wait('exists'); resolved_target is the title the element is looked up by
CheckCondition(condition, rv, exists) ==
    LET resolved_target == IF condition.target = <<>> THEN Ok("")
                           ELSE ResolveVariables(condition.target, NoneRow, rv)
    IN IF resolved_target.exc # "none"
       THEN [exc |-> resolved_target.exc, result |-> FALSE, resolved_target |-> ""]
       ELSE IF condition.type = "element_exists"
            THEN [exc |-> "none", result |-> exists,
                  resolved_target |-> resolved_target.value]
       ELSE [exc |-> "none", result |-> FALSE,
             resolved_target |-> resolved_target.value]

\* IfCondition that steps over the block whenever the condition is false
IfCondition_SkipsElse ==
    /\ AtStep /\ alive
    /\ IsControl(CurStep, "if_condition")
    /\ LET m == FindElseOrEndIf(Top.steps, Top.pc)
       IN IF m.exc # "none"
          THEN /\ exc' = m.exc
               /\ stack' = stack
          ELSE \E exists \in BOOLEAN :
               LET condition_result == CheckCondition(CurStep.condition,
                                                      runtime_variables, exists)
                   caller == [Top EXCEPT !.at = "if", !.sep_index = m.sep,
                                         !.end_index = m.end,
                                         !.condition_result = condition_result.result]
                   if_body == Slice(Top.steps, Top.pc + 1,
                                    IF m.sep # -1 THEN m.sep ELSE m.end)
                   else_body == Slice(Top.steps, m.sep + 1, m.end)
               IN IF condition_result.exc # "none"
                  THEN /\ exc' = condition_result.exc
                       /\ stack' = stack
                  ELSE /\ exc' = exc
                       /\ IF condition_result.result
                          THEN stack' = Append(SetTop(caller),
                                   NewFrame(if_body, Top.data_row, Top.iteration_num))
                          ELSE stack' = SetTop([caller EXCEPT !.pc = m.end + 1,
                                                              !.at = "step"])
    /\ UNCHANGED <<phase, scenario, data_rows, data_driven, row_i,
                   runtime_variables, results, alive, element_text, tab_selected, call,
                   running_workers>>

\* if_condition: else and end_if are looked up, the condition is evaluated and
\* the chosen body, if any, is called
IfCondition ==
    /\ AtStep /\ alive
    /\ IsControl(CurStep, "if_condition")
    /\ LET m == FindElseOrEndIf(Top.steps, Top.pc)
       IN IF m.exc # "none"
          THEN /\ exc' = m.exc
               /\ stack' = stack
          ELSE \E exists \in BOOLEAN :
               LET condition_result == CheckCondition(CurStep.condition,
                                                      runtime_variables, exists)
                   caller == [Top EXCEPT !.at = "if", !.sep_index = m.sep,
                                         !.end_index = m.end,
                                         !.condition_result = condition_result.result]
                   if_body == Slice(Top.steps, Top.pc + 1,
                                    IF m.sep # -1 THEN m.sep ELSE m.end)
                   else_body == Slice(Top.steps, m.sep + 1, m.end)
               IN IF condition_result.exc # "none"
                  THEN /\ exc' = condition_result.exc
                       /\ stack' = stack
                  ELSE /\ exc' = exc
                       /\ IF condition_result.result
                          THEN stack' = Append(SetTop(caller),
                                   NewFrame(if_body, Top.data_row, Top.iteration_num))
                          ELSE IF m.sep # -1
                          THEN stack' = Append(SetTop(caller),
                                   NewFrame(else_body, Top.data_row, Top.iteration_num))
                          ELSE stack' = SetTop([caller EXCEPT !.pc = m.end + 1,
                                                              !.at = "step"])
    /\ UNCHANGED <<phase, scenario, data_rows, data_driven, row_i,
                   runtime_variables, results, alive, element_text, tab_selected, call,
                   running_workers>>

\* try_catch_start: catch and end are looked up and the try body is called
TryCatchStart ==
    /\ AtStep /\ alive
    /\ IsControl(CurStep, "try_catch_start")
    /\ LET m == FindCatchOrEndTry(Top.steps, Top.pc)
       IN IF m.exc # "none"
          THEN /\ exc' = m.exc
               /\ stack' = stack
          ELSE /\ exc' = exc
               /\ stack' = Append(
                     SetTop([Top EXCEPT !.at = "try", !.sep_index = m.sep,
                                        !.end_index = m.end]),
                     NewFrame(Slice(Top.steps, Top.pc + 1,
                                    IF m.sep # -1 THEN m.sep ELSE m.end),
                              Top.data_row, Top.iteration_num))
    /\ UNCHANGED <<phase, scenario, data_rows, data_driven, row_i,
                   runtime_variables, results, alive, element_text, tab_selected, call,
                   running_workers>>

\* ExecuteWait that applies the step's onError as _execute_action does
ExecuteWait_HonoursPolicy ==
    /\ AtStep /\ alive
    /\ IsControl(CurStep, "wait_for_condition")
    /\ \E satisfied \in BOOLEAN :
          LET condition == CurStep.condition
              resolved_target == IF condition.target = <<>> THEN Ok("")
                                 ELSE ResolveVariables(condition.target, Top.data_row,
                                                       runtime_variables)
              e == IF resolved_target.exc # "none" THEN resolved_target.exc
                   ELSE IF condition.type \in {"element_exists", "element_vanishes"}
                           /\ ~satisfied
                        THEN "TimeoutError"
                   ELSE "none"
          IN IF e = "none"
             THEN /\ results' = RecordStepResult(results, CurStep, "success",
                                                 Top.iteration_num, "")
                  /\ exc' = exc
                  /\ stack' = SetTop(Advance(Top))
             ELSE /\ results' = RecordStepResult(results, CurStep, "failure",
                                                 Top.iteration_num, e)
                  /\ IF OnErrorPolicy(CurStep).method = "stop"
                     THEN exc' = e /\ stack' = stack
                     ELSE exc' = exc /\ stack' = SetTop(Advance(Top))
    /\ UNCHANGED <<phase, scenario, data_rows, data_driven, row_i,
                   runtime_variables, alive, element_text, tab_selected, call,
                   running_workers>>

\* ScenarioRunner._execute_wait, then pc += 1; satisfied is whether the surface
\* meets the condition within the timeout
ExecuteWait ==
    /\ AtStep /\ alive
    /\ IsControl(CurStep, "wait_for_condition")
    /\ \E satisfied \in BOOLEAN :
          LET condition == CurStep.condition
              resolved_target == IF condition.target = <<>> THEN Ok("")
                                 ELSE ResolveVariables(condition.target, Top.data_row,
                                                       runtime_variables)
              e == IF resolved_target.exc # "none" THEN resolved_target.exc
                   ELSE IF condition.type \in {"element_exists", "element_vanishes"}
                           /\ ~satisfied
                        THEN "TimeoutError"
                   ELSE "none"
          IN IF e = "none"
             THEN /\ results' = RecordStepResult(results, CurStep, "success",
                                                 Top.iteration_num, "")
                  /\ exc' = exc
                  /\ stack' = SetTop(Advance(Top))
             ELSE /\ results' = RecordStepResult(results, CurStep, "failure",
                                                 Top.iteration_num, e)
                  /\ exc' = e
                  /\ stack' = stack
    /\ UNCHANGED <<phase, scenario, data_rows, data_driven, row_i,
                   runtime_variables, alive, element_text, tab_selected, call,
                   running_workers>>

Handled == {"start_loop", "if_condition", "try_catch_start", "wait_for_condition"}

\* NoOp that takes a marker met without its opener for a syntax error
NoOp_RaisesOnStray ==
    /\ AtStep /\ alive
    /\ CurStep.type # "action"
    /\ ~(CurStep.type = "control" /\ CurStep.control_type \in Handled)
    /\ IF CurStep.control_type \in {"else", "catch_separator", "end_loop", "end_if",
                                    "try_catch_end"}
       THEN exc' = "SyntaxError" /\ stack' = stack
       ELSE exc' = exc /\ stack' = SetTop(Advance(Top))
    /\ UNCHANGED <<phase, scenario, data_rows, data_driven, row_i,
                   runtime_variables, results, alive, element_text, tab_selected, call,
                   running_workers>>

\* any other step: pc += 1
NoOp ==
    /\ AtStep /\ alive
    /\ CurStep.type # "action"
    /\ ~(CurStep.type = "control" /\ CurStep.control_type \in Handled)
    /\ stack' = SetTop(Advance(Top))
    /\ UNCHANGED <<phase, scenario, data_rows, data_driven, row_i, exc,
                   runtime_variables, results, alive, element_text, tab_selected, call,
                   running_workers>>

\* the while loop ends and _execute_steps returns to its caller
Return ==
    /\ phase = "running" /\ exc = "none" /\ stack # <<>>
    /\ Top.at = "step" /\ Top.pc >= Len(Top.steps)
    /\ LET rest == Pop(stack)
           caller == rest[Len(rest)]
       IN IF rest = <<>> \/ caller.at = "loop"
          THEN stack' = rest
          ELSE stack' = [rest EXCEPT ![Len(rest)] =
                            [caller EXCEPT !.pc = caller.end_index + 1, !.at = "step"]]
    /\ UNCHANGED <<phase, scenario, data_rows, data_driven, row_i, exc,
                   runtime_variables, results, alive, element_text, tab_selected, call,
                   running_workers>>

\* Propagate that never calls the catch body
Propagate_SkipsCatch ==
    /\ phase = "running" /\ exc # "none" /\ stack # <<>>
    /\ LET rest == Pop(stack)
           caller == rest[Len(rest)]
       IN IF rest # <<>> /\ caller.at = "try"
          THEN /\ exc' = "none"
               /\ stack' = [rest EXCEPT ![Len(rest)] =
                          [caller EXCEPT !.pc = caller.end_index + 1, !.at = "step"]]
          ELSE /\ exc' = exc
               /\ stack' = rest
    /\ UNCHANGED <<phase, scenario, data_rows, data_driven, row_i,
                   runtime_variables, results, alive, element_text, tab_selected, call,
                   running_workers>>

\* Propagate with the catch body inside the try clause: an error of the catch
\* body is caught as well and the list goes on after the try_catch_end
Propagate_CatchesCatchBody ==
    /\ phase = "running" /\ exc # "none" /\ stack # <<>>
    /\ LET rest == Pop(stack)
           caller == rest[Len(rest)]
       IN IF rest # <<>> /\ caller.at = "try"
          THEN /\ exc' = "none"
               /\ IF caller.sep_index # -1
                  THEN stack' = Append(
                          [rest EXCEPT ![Len(rest)] = [caller EXCEPT !.at = "catch"]],
                          NewFrame(Slice(caller.steps, caller.sep_index + 1,
                                         caller.end_index),
                                   caller.data_row, caller.iteration_num))
                  ELSE stack' = [rest EXCEPT ![Len(rest)] =
                          [caller EXCEPT !.pc = caller.end_index + 1, !.at = "step"]]
          ELSE IF rest # <<>> /\ caller.at = "catch"
          THEN /\ exc' = "none"
               /\ stack' = [rest EXCEPT ![Len(rest)] =
                       [caller EXCEPT !.pc = caller.end_index + 1, !.at = "step"]]
          ELSE /\ exc' = exc
               /\ stack' = rest
    /\ UNCHANGED <<phase, scenario, data_rows, data_driven, row_i,
                   runtime_variables, results, alive, element_text, tab_selected, call,
                   running_workers>>

\* Propagate with the innermost of nested try blocks transparent: the error
\* goes on to the try block around it
Propagate_InnerTryTransparent ==
    /\ phase = "running" /\ exc # "none" /\ stack # <<>>
    /\ LET rest == Pop(stack)
           caller == rest[Len(rest)]
           nested == \E k \in 1..(Len(rest) - 1) : rest[k].at = "try"
       IN IF rest # <<>> /\ caller.at = "try" /\ ~nested
          THEN /\ exc' = "none"
               /\ IF caller.sep_index # -1
                  THEN stack' = Append(
                          [rest EXCEPT ![Len(rest)] = [caller EXCEPT !.at = "catch"]],
                          NewFrame(Slice(caller.steps, caller.sep_index + 1,
                                         caller.end_index),
                                   caller.data_row, caller.iteration_num))
                  ELSE stack' = [rest EXCEPT ![Len(rest)] =
                          [caller EXCEPT !.pc = caller.end_index + 1, !.at = "step"]]
          ELSE /\ exc' = exc
               /\ stack' = rest
    /\ UNCHANGED <<phase, scenario, data_rows, data_driven, row_i,
                   runtime_variables, results, alive, element_text, tab_selected, call,
                   running_workers>>

\* an exception leaves one invocation of _execute_steps; a caller waiting in
\* its try clause catches it ("except Exception") and calls the catch body
Propagate ==
    /\ phase = "running" /\ exc # "none" /\ stack # <<>>
    /\ LET rest == Pop(stack)
           caller == rest[Len(rest)]
       IN IF rest # <<>> /\ caller.at = "try"
          THEN /\ exc' = "none"
               /\ IF caller.sep_index # -1
                  THEN stack' = Append(
                          [rest EXCEPT ![Len(rest)] = [caller EXCEPT !.at = "catch"]],
                          NewFrame(Slice(caller.steps, caller.sep_index + 1,
                                         caller.end_index),
                                   caller.data_row, caller.iteration_num))
                  ELSE stack' = [rest EXCEPT ![Len(rest)] =
                          [caller EXCEPT !.pc = caller.end_index + 1, !.at = "step"]]
          ELSE /\ exc' = exc
               /\ stack' = rest
    /\ UNCHANGED <<phase, scenario, data_rows, data_driven, row_i,
                   runtime_variables, results, alive, element_text, tab_selected, call,
                   running_workers>>

\* the application under test is closed
AppDies ==
    /\ alive
    /\ alive' = FALSE
    /\ UNCHANGED <<phase, scenario, data_rows, data_driven, row_i, stack, exc,
                   runtime_variables, results, element_text, tab_selected, call,
                   running_workers>>


---------------------------------------------------------------------------
(* The scenarios and data files the engine is run on *)

EditPath == <<Desc("", "Edit", "edit")>>
TabPath == <<Desc("", "TabItem", "tab"), Desc("txt", "", "")>>

Click(id, onError) == ActionStep(id, "click", EditPath, NoParams, onError)
SetText(id, text, onError) ==
    ActionStep(id, "set_text", EditPath, [text |-> text, variable_name |-> ""], onError)
GetText(id, name, onError) ==
    ActionStep(id, "get_text", EditPath, [text |-> <<>>, variable_name |-> name], onError)

Scenarios == {
    <<>>,
    <<Click("a", Retry(MaxRetries)), Click("b", Stop)>>,
    <<ControlStep("t", "try_catch_start"), Click("a", Stop), Click("b", Continue),
      ControlStep("c", "catch_separator"), Click("d", NoPolicy),
      ControlStep("e", "try_catch_end"), Click("f", Stop)>>,
    <<SetText("a", <<Ph("x")>>, Stop), GetText("b", "y", Stop)>>,
    <<SetText("a", <<Ph("y")>>, Continue), GetText("b", "y", Continue),
      GetText("c", "x", Continue), SetText("d", <<PhSp("x")>>, Stop)>>,
    <<StartLoopStep("l", MaxLoop), IfStep("i", "element_exists", <<Lit("edit")>>),
      Click("a", Continue), ControlStep("s", "else"),
      ActionStep("b", "click", TabPath, NoParams, Retry(MaxRetries)),
      ControlStep("e", "end_if"), ControlStep("m", "end_loop")>>,
    <<Click("a", Continue), ControlStep("t", "try_catch_start"),
      WaitStep("w", "element_exists", <<Lit("edit")>>, Continue),
      ControlStep("e", "try_catch_end")>>,
    <<ControlStep("t", "try_catch_start"), ControlStep("u", "try_catch_start"),
      Click("a", Stop), ControlStep("c", "catch_separator"), Click("b", Stop),
      ControlStep("e", "try_catch_end"), Click("d", Stop),
      ControlStep("f", "try_catch_end")>>,
    <<ControlStep("e", "end_if"), StartLoopStep("l", MaxLoop), Click("a", Stop)>>,
    <<ControlStep("t", "try_catch_start"), IfStep("i", "element_exists", <<Lit("edit")>>),
      ControlStep("e", "try_catch_end"), Click("f", Stop)>>,
    <<ActionStep("a", "click", <<>>, NoParams, Continue),
      GetText("b", "", Retry(MaxRetries)),
      ActionStep("c", "click", <<Desc("", "", "")>>, NoParams, Stop)>>,
    <<IfStep("i", "element_exists", <<Lit("edit")>>), Click("a", Stop),
      ControlStep("e", "end_if"), Click("b", Stop)>>,
    <<Click("a", Stop), StartLoopStep("l", MaxLoop), Click("b", Stop)>>,
    <<GetText("g", "y", Stop), IfStep("i", "element_exists", <<Ph("x")>>),
      Click("a", Stop), ControlStep("e", "end_if")>>,
    <<StartLoopStep("l", MaxLoop), GetText("g", "x", Stop),
      SetText("s", <<Ph("x")>>, Stop), ControlStep("m", "end_loop")>>,
    <<GetText("g", "y", Stop), SetText("a", <<Ph("x")>>, Retry(MaxRetries)),
      Click("b", Stop)>>,
    <<Click("a", RetryDefault), Click("b", Continue)>>,
    <<GetText("g", "x", Stop), ControlStep("s", "else"),
      ControlStep("c", "catch_separator"), ControlStep("m", "end_loop"),
      ControlStep("e", "try_catch_end"), ControlStep("p", "group"),
      ControlStep("q", "end_group"), Click("a", Stop)>>,
    <<GetText("g", "x", Continue),
      ActionStep("h", "hover", TabPath, NoParams, Continue)>>,
    <<ControlStep("t", "try_catch_start"), ControlStep("u", "try_catch_start"),
      Click("a", Stop), ControlStep("e", "try_catch_end"), Click("d", Continue),
      ControlStep("c", "catch_separator"), Click("g", Stop),
      ControlStep("f", "try_catch_end")>>,
    <<GetText("g", "x", Stop), ActionStep("a", "click", TabPath, NoParams, Retry(0)),
      Click("b", Stop)>>
}

RowSet == {[x |-> "hello", y |-> Undef]}

\* the scenarios that are also run with a data file
DataScenarios == {
    <<>>,
    <<Click("a", Retry(MaxRetries)), Click("b", Stop)>>,
    <<SetText("a", <<Ph("x")>>, Stop), GetText("b", "y", Stop)>>
}

\* data_file_path: no file, or a CSV file of up to MaxRows rows
NoFile == [exists |-> FALSE, rows |-> <<>>]
CsvFiles ==
    {[exists |-> TRUE, rows |-> r] : r \in UNION {[1..n -> RowSet] : n \in 0..MaxRows}}

\* the arguments run_scenario is called with
Runs == (Scenarios \X {NoFile}) \cup (DataScenarios \X CsvFiles)

---------------------------------------------------------------------------
(* The slots of the parallel runner panel *)

Slots == 0..(MaxSlots - 1)

\* runner = None
NoRunner == [runtime_variables |-> EmptyDict, results |-> NoResults, pc |-> -1,
             i |-> 0, last_exception |-> "None", exc |-> "none"]

\* slot_index not in self.running_workers
NoWorker == [at |-> "none", scenario_data |-> <<>>, runner |-> NoRunner,
             message |-> "", emitted |-> 0]

NoWorkers == [s \in Slots |-> NoWorker]

---------------------------------------------------------------------------
(* The engine *)

Init ==
    /\ phase = "idle"
    /\ scenario = <<>>
    /\ data_rows = <<>>
    /\ data_driven = FALSE
    /\ row_i = 0
    /\ stack = <<>>
    /\ exc = "none"
    /\ runtime_variables = EmptyDict
    /\ results = NoResults
    /\ alive = TRUE
    /\ element_text = "init"
    /\ tab_selected = FALSE
    /\ call = NoCall
    /\ running_workers = NoWorkers

Next ==
    \/ \E r \in Runs : RunScenario(r[1], r[2])
    \/ NextRow
    \/ FinishSuccess
    \/ FinishFailure
    \/ CheckAppIsAlive
    \/ ExecuteAction
    \/ Attempt
    \/ ActionFailed
    \/ StartLoop
    \/ LoopNext
    \/ IfCondition
    \/ TryCatchStart
    \/ ExecuteWait
    \/ NoOp
    \/ Return
    \/ Propagate
    \/ AppDies

Spec == Init /\ [][Next]_vars


---------------------------------------------------------------------------
(* Direct calls of _resolve_variables: every store, data row and text *)

Dicts == [Names -> Values \cup {Undef}]

Tokens == {Lit("a"), Ph("x"), Ph("y"), PhSp("x")}

Texts == UNION {[1..n -> Tokens] : n \in 0..MaxText} \cup {NonStr}

EngineIdle ==
    /\ phase = "idle"
    /\ scenario = <<>>
    /\ data_rows = <<>>
    /\ data_driven = FALSE
    /\ row_i = 0
    /\ stack = <<>>
    /\ exc = "none"
    /\ results = NoResults
    /\ alive = TRUE
    /\ element_text = "init"
    /\ tab_selected = FALSE
    /\ running_workers = NoWorkers

InitResolve ==
    /\ EngineIdle
    /\ runtime_variables \in Dicts
    /\ call \in {[NoCall EXCEPT !.fn = "_resolve_variables", !.text = t, !.data_row = r] :
                    t \in Texts, r \in {NoneRow} \cup {Row(d) : d \in Dicts}}

\* self._resolve_variables(text, data_row) is called and returns or raises
CallResolveVariables ==
    /\ call.fn = "_resolve_variables" /\ ~call.done
    /\ LET r == ResolveVariables(call.text, call.data_row, runtime_variables)
       IN call' = [call EXCEPT !.done = TRUE, !.exc = r.exc, !.value = r.value]
    /\ UNCHANGED <<phase, scenario, data_rows, data_driven, row_i, stack, exc,
                   runtime_variables, results, alive, element_text, tab_selected,
                   running_workers>>

SpecResolve == InitResolve /\ [][CallResolveVariables]_vars

---------------------------------------------------------------------------
(* Direct calls of the block scans: every well-formed step list *)

Marker(control_type) == ControlStep("m", control_type)

\* the step lists of length n in which every block is closed and properly nested
RECURSIVE WellFormed(_)
WellFormed(n) ==
    IF n = 0 THEN {<<>>}
    ELSE LET Block(open, body, close) == <<Marker(open)>> \o body \o <<Marker(close)>>
             Split(open, b1, sep, b2, close) ==
                 <<Marker(open)>> \o b1 \o <<Marker(sep)>> \o b2 \o <<Marker(close)>>
             Whole(m, open, close) == {Block(open, b, close) : b \in WellFormed(m - 2)}
             Halved(m, open, sep, close) ==
                 UNION {{Split(open, b1, sep, b2, close) :
                            b1 \in WellFormed(a), b2 \in WellFormed(m - 3 - a)} :
                        a \in 0..(m - 3)}
             Blocks(m) == Whole(m, "start_loop", "end_loop")
                          \cup Whole(m, "if_condition", "end_if")
                          \cup Whole(m, "try_catch_start", "try_catch_end")
                          \cup Halved(m, "if_condition", "else", "end_if")
                          \cup Halved(m, "try_catch_start", "catch_separator",
                                      "try_catch_end")
         IN {<<Click("a", Stop)>> \o r : r \in WellFormed(n - 1)}
            \cup UNION {{b \o r : b \in Blocks(m), r \in WellFormed(n - m)} : m \in 2..n}

StepLists == UNION {WellFormed(n) : n \in 0..MaxLen}

Openers(steps, control_type) ==
    {k \in 0..(Len(steps) - 1) : IsControl(At(steps, k), control_type)}

InitMatch ==
    /\ EngineIdle
    /\ runtime_variables = EmptyDict
    /\ call \in {[NoCall EXCEPT !.fn = "scan", !.steps = s] : s \in StepLists}

Returned(fn, k, m) ==
    [call EXCEPT !.fn = fn, !.start_index = k, !.done = TRUE,
                 !.exc = m.exc, !.sep = m.sep, !.end = m.end]

\* self._find_matching_end(steps, pc, "start_loop", "end_loop") at a start_loop
CallFindMatchingEnd ==
    /\ call.fn = "scan"
    /\ \E k \in Openers(call.steps, "start_loop") :
          call' = Returned("_find_matching_end", k,
                           FindMatchingEnd(call.steps, k, "start_loop", "end_loop"))
    /\ UNCHANGED <<phase, scenario, data_rows, data_driven, row_i, stack, exc,
                   runtime_variables, results, alive, element_text, tab_selected,
                   running_workers>>

\* self._find_else_or_end_if(steps, pc) at an if_condition
CallFindElseOrEndIf ==
    /\ call.fn = "scan"
    /\ \E k \in Openers(call.steps, "if_condition") :
          call' = Returned("_find_else_or_end_if", k, FindElseOrEndIf(call.steps, k))
    /\ UNCHANGED <<phase, scenario, data_rows, data_driven, row_i, stack, exc,
                   runtime_variables, results, alive, element_text, tab_selected,
                   running_workers>>

\* self._find_catch_or_end_try(steps, pc) at a try_catch_start
CallFindCatchOrEndTry ==
    /\ call.fn = "scan"
    /\ \E k \in Openers(call.steps, "try_catch_start") :
          call' = Returned("_find_catch_or_end_try", k, FindCatchOrEndTry(call.steps, k))
    /\ UNCHANGED <<phase, scenario, data_rows, data_driven, row_i, stack, exc,
                   runtime_variables, results, alive, element_text, tab_selected,
                   running_workers>>

NextMatch == CallFindMatchingEnd \/ CallFindElseOrEndIf \/ CallFindCatchOrEndTry

SpecMatch == InitMatch /\ [][NextMatch]_vars


---------------------------------------------------------------------------
(* The fallback chains of the actions: src/claude/scenario_runner.py *)

\* what a call of a technique does: it returns ("none") or raises one of these
Raised == {"none", "ElementNotEnabled", "TimeoutError"}

Words == {"hello", "bye"}

\* the element: the keys its edit field holds, the last click it received,
\* its display value and its text runs
Elements ==
    [content : {<<>>}, clicked : {""}, window_text : Words,
     texts : {<<"hello">>, <<"hello", "bye">>}]

\* " ".join(runs)
RECURSIVE Join(_)
Join(runs) ==
    IF Len(runs) <= 1 THEN runs
    ELSE <<Head(runs), " ">> \o Join(Tail(runs))

\* what a chain returns: the techniques it invoked in order, the error it
\* raised, the value it returned and the element after it
Outcome(invoked, e, value, element) ==
    [invoked |-> invoked, exc |-> e, value |-> value, element |-> element]

\* _safe_click that gives up with the error of the first technique
SafeClick_RaisesFirstError(element, e1, e2) ==
    IF e1 = "none"
    THEN Outcome(<<"click_input">>, "none", <<>>,
                 [element EXCEPT !.clicked = "click_input"])
    ELSE IF e2 = "none"
    THEN Outcome(<<"click_input", "click">>, "none", <<>>,
                 [element EXCEPT !.clicked = "click"])
    ELSE Outcome(<<"click_input", "click">>, e1, <<>>, element)

\* ScenarioRunner._safe_click; e1, e2: what click_input() and click() do
SafeClick(element, e1, e2) ==
    IF e1 = "none"
    THEN Outcome(<<"click_input">>, "none", <<>>,
                 [element EXCEPT !.clicked = "click_input"])
    ELSE IF e2 = "none"
    THEN Outcome(<<"click_input", "click">>, "none", <<>>,
                 [element EXCEPT !.clicked = "click"])
    ELSE Outcome(<<"click_input", "click">>, e2, <<>>, element)

\* ScenarioRunner._safe_set_text; e1, e2: what set_edit_text() and type_keys()
\* do; set_edit_text replaces the content, type_keys types after it
SafeSetText(element, text, e1, e2) ==
    IF e1 = "none"
    THEN Outcome(<<"set_edit_text">>, "none", <<>>,
                 [element EXCEPT !.content = <<text>>])
    ELSE IF e2 = "none"
    THEN Outcome(<<"set_edit_text", "type_keys">>, "none", <<>>,
                 [element EXCEPT !.content = Append(@, text)])
    ELSE Outcome(<<"set_edit_text", "type_keys">>, e2, <<>>, element)

\* ScenarioRunner._safe_get_text; e1, e2: what window_text() and texts() do
SafeGetText(element, e1, e2) ==
    IF e1 = "none"
    THEN Outcome(<<"window_text">>, "none", <<element.window_text>>, element)
    ELSE IF e2 = "none"
    THEN Outcome(<<"window_text", "texts">>, "none", Join(element.texts), element)
    ELSE Outcome(<<"window_text", "texts">>, e2, <<>>, element)

\* a call of a chain and what it returned
SafeCall(fn, text, e1, e2, r) ==
    [fn |-> fn, text |-> text, e1 |-> e1, e2 |-> e2, done |-> TRUE,
     invoked |-> r.invoked, exc |-> r.exc, value |-> r.value, element |-> r.element]

InitSafe ==
    /\ EngineIdle
    /\ runtime_variables = EmptyDict
    /\ call \in {[fn |-> "", text |-> "", e1 |-> "none", e2 |-> "none",
                  done |-> FALSE, invoked |-> <<>>, exc |-> "none", value |-> <<>>,
                  element |-> element] : element \in Elements}

\* self._safe_click(element)
CallSafeClick ==
    /\ \E e1 \in Raised, e2 \in Raised :
          call' = SafeCall("_safe_click", "", e1, e2, SafeClick(call.element, e1, e2))
    /\ UNCHANGED <<phase, scenario, data_rows, data_driven, row_i, stack, exc,
                   runtime_variables, results, alive, element_text, tab_selected,
                   running_workers>>

\* self._safe_set_text(element, text_to_set)
CallSafeSetText ==
    /\ Len(call.element.content) < MaxTyped
    /\ \E text \in Words, e1 \in Raised, e2 \in Raised :
          call' = SafeCall("_safe_set_text", text, e1, e2,
                           SafeSetText(call.element, text, e1, e2))
    /\ UNCHANGED <<phase, scenario, data_rows, data_driven, row_i, stack, exc,
                   runtime_variables, results, alive, element_text, tab_selected,
                   running_workers>>

\* self._safe_get_text(element)
CallSafeGetText ==
    /\ \E e1 \in Raised, e2 \in Raised :
          call' = SafeCall("_safe_get_text", "", e1, e2,
                           SafeGetText(call.element, e1, e2))
    /\ UNCHANGED <<phase, scenario, data_rows, data_driven, row_i, stack, exc,
                   runtime_variables, results, alive, element_text, tab_selected,
                   running_workers>>

NextSafe == CallSafeClick \/ CallSafeSetText \/ CallSafeGetText

SpecSafe == InitSafe /\ [][NextSafe]_vars

---------------------------------------------------------------------------
(* Direct calls of _check_condition from the if_condition branch *)

ConditionTypes == {"element_exists", "element_vanishes"}

\* the store, the condition of the step, the data row of the iteration the
\* step list is executed for, and whether the target element is on the surface
InitCondition ==
    /\ EngineIdle
    /\ runtime_variables \in Dicts
    /\ call \in {[fn |-> "_check_condition",
                   condition |-> [type |-> type, target |-> target],
                   data_row |-> data_row, exists |-> exists, done |-> FALSE,
                   exc |-> "none", result |-> FALSE, resolved_target |-> ""] :
                    type \in ConditionTypes, target \in Texts,
                    data_row \in {NoneRow} \cup {Row(d) : d \in Dicts},
                    exists \in BOOLEAN}

\* condition_result = self._check_condition(step.get("condition", {}))
CallCheckCondition ==
    /\ call.fn = "_check_condition" /\ ~call.done
    /\ LET r == CheckCondition(call.condition, runtime_variables, call.exists)
       IN call' = [call EXCEPT !.done = TRUE, !.exc = r.exc, !.result = r.result,
                               !.resolved_target = r.resolved_target]
    /\ UNCHANGED <<phase, scenario, data_rows, data_driven, row_i, stack, exc,
                   runtime_variables, results, alive, element_text, tab_selected,
                   running_workers>>

SpecCondition == InitCondition /\ [][CallCheckCondition]_vars

---------------------------------------------------------------------------
(* Direct calls of _find_element_dynamically: the same path resolved twice *)

\* the descriptions a path level is drawn from; the third has no identifier
Descs == {Desc("", "TabItem", "tab"), Desc("pane", "", ""), Desc("", "", ""),
          Desc("", "Edit", "edit")}

RECURSIVE PathsOfLen(_)
PathsOfLen(n) ==
    IF n = 0 THEN {<<>>}
    ELSE {Append(p, d) : p \in PathsOfLen(n - 1), d \in Descs}

FindPaths == UNION {PathsOfLen(n) : n \in 1..MaxPath}

\* the surface of a call: the path level that does not show up (0: all do)
\* and whether the tab is selected; both resolutions meet the same elements
InitFind ==
    /\ phase = "idle" /\ scenario = <<>> /\ data_rows = <<>> /\ data_driven = FALSE
    /\ row_i = 0 /\ stack = <<>> /\ exc = "none" /\ results = NoResults
    /\ alive = TRUE /\ element_text = "init" /\ running_workers = NoWorkers
    /\ runtime_variables = EmptyDict
    /\ tab_selected \in BOOLEAN
    /\ \E path \in FindPaths, fail_level \in 0..MaxPath :
          /\ fail_level < Len(path)
          /\ call = [fn |-> "_find_element_dynamically", path |-> path,
                     fail_level |-> fail_level, before |-> tab_selected,
                     found |-> <<>>]

\* self._find_element_dynamically(path) returns or raises; it is called twice
CallFindElementDynamically ==
    /\ Len(call.found) < 2
    /\ LET r == FindElementDynamically(call.path, call.fail_level, tab_selected)
       IN /\ call' = [call EXCEPT !.found = Append(@, r)]
          /\ tab_selected' = r.selected
    /\ UNCHANGED <<phase, scenario, data_rows, data_driven, row_i, stack, exc,
                   runtime_variables, results, alive, element_text, running_workers>>

SpecFind == InitFind /\ [][CallFindElementDynamically]_vars

---------------------------------------------------------------------------
(* Parallel runs: MainWindow.run_parallel_scenario and ScenarioWorker *)

\* the scenarios of the slots: lists of action steps, run without data file
ParallelScenarios == {
    <<GetText("p", "x", Continue)>>,
    <<GetText("s", "y", Stop)>>
}

InitParallel ==
    /\ EngineIdle
    /\ runtime_variables = EmptyDict
    /\ call = NoCall

\* RunParallelScenario without the check of running_workers: the worker of a
\* busy slot is replaced by a new one
RunParallelScenario_ReplacesWorker(slot_index, target_title, scenario_data) ==
    /\ IF target_title = ""
       THEN running_workers' = running_workers
       ELSE running_workers' = [running_workers EXCEPT ![slot_index] =
               [at |-> "start", scenario_data |-> scenario_data, runner |-> NoRunner,
                message |-> "", emitted |-> 0]]
    /\ UNCHANGED <<phase, scenario, data_rows, data_driven, row_i, stack, exc,
                   runtime_variables, results, alive, element_text, tab_selected, call>>

\* MainWindow.run_parallel_scenario, called for the run button of a slot, the
\* main toolbar or a log-monitor trigger: without a target title, or for a slot
\* that is in running_workers, it returns after a warning; otherwise a
\* ScenarioWorker is created, registered and started
RunParallelScenario(slot_index, target_title, scenario_data) ==
    /\ IF target_title = "" \/ running_workers[slot_index] # NoWorker
       THEN running_workers' = running_workers
       ELSE running_workers' = [running_workers EXCEPT ![slot_index] =
               [at |-> "start", scenario_data |-> scenario_data, runner |-> NoRunner,
                message |-> "", emitted |-> 0]]
    /\ UNCHANGED <<phase, scenario, data_rows, data_driven, row_i, stack, exc,
                   runtime_variables, results, alive, element_text, tab_selected, call>>

\* ScenarioWorker.run up to the first step: its own AppConnector connects, its
\* own ScenarioRunner is constructed and run_scenario is entered
WorkerConnects(slot_index) ==
    /\ running_workers[slot_index].at = "start"
    /\ \E connected \in {c \in BOOLEAN : c => alive} :
          LET worker == running_workers[slot_index]
              runner == [runtime_variables |-> EmptyDict,
                         results |-> [summary |-> [NoSummary EXCEPT
                                                      !.status = "In Progress",
                                                      !.data_iterations = 1],
                                      steps |-> <<>>],
                         pc |-> 0, i |-> 0, last_exception |-> "None", exc |-> "none"]
          IN running_workers' = [running_workers EXCEPT ![slot_index] =
                IF connected THEN [worker EXCEPT !.at = "run", !.runner = runner]
                ELSE [worker EXCEPT !.at = "emit", !.message = "failure",
                                    !.emitted = @ + 1]]
    /\ UNCHANGED <<phase, scenario, data_rows, data_driven, row_i, stack, exc,
                   runtime_variables, results, alive, element_text, tab_selected, call>>

\* WorkerStep with runtime_variables a class attribute, one dictionary for all
\* the runners
WorkerStep_SharedStore(slot_index) ==
    /\ running_workers[slot_index].at = "run"
    /\ LET worker == running_workers[slot_index]
           runner == worker.runner
           step == At(worker.scenario_data, runner.pc)
           next(r) == [r EXCEPT !.pc = r.pc + 1, !.i = 0]
           shared(rv) == [s \in Slots |->
                 IF running_workers[s].at = "run" /\ s # slot_index
                 THEN [running_workers[s] EXCEPT !.runner.runtime_variables = rv]
                 ELSE running_workers[s]]
       IN /\ runner.exc = "none" /\ runner.pc < Len(worker.scenario_data)
          /\ step.type = "action"
          /\ IF runner.i = 0 /\ ~alive
             THEN /\ running_workers' = [running_workers EXCEPT
                        ![slot_index].runner.exc = "TargetAppClosedError"]
                  /\ UNCHANGED <<element_text, tab_selected>>
             ELSE IF runner.i < Attempts(step)
             THEN \E fail_level \in 0..(Len(step.path) + 1) :
                     LET r == TryAction(step, NoneRow, fail_level,
                                        runner.runtime_variables, element_text,
                                        tab_selected)
                         done == [runner EXCEPT !.runtime_variables = r.rv]
                     IN /\ element_text' = r.text
                        /\ tab_selected' = r.selected
                        /\ running_workers' = [shared(r.rv) EXCEPT ![slot_index].runner =
                              IF r.exc = "none"
                              THEN next([done EXCEPT !.results =
                                      RecordStepResult(runner.results, step, "success",
                                                       1, "")])
                              ELSE [done EXCEPT !.last_exception = r.exc,
                                                !.i = runner.i + 1]]
             ELSE /\ LET failed == [runner EXCEPT !.results =
                            RecordStepResult(runner.results, step, "failure", 1,
                                             runner.last_exception)]
                     IN running_workers' = [running_workers EXCEPT ![slot_index].runner =
                           IF OnErrorPolicy(step).method = "stop"
                           THEN [failed EXCEPT !.exc = runner.last_exception]
                           ELSE next(failed)]
                  /\ UNCHANGED <<element_text, tab_selected>>
    /\ UNCHANGED <<phase, scenario, data_rows, data_driven, row_i, stack, exc,
                   runtime_variables, results, alive, call>>

\* one step of the worker's runner inside _execute_steps: the liveness check
\* with the first attempt of the action after it, a further attempt, or the
\* record of the failure and the policy, on the runner's own store and results
WorkerStep(slot_index) ==
    /\ running_workers[slot_index].at = "run"
    /\ LET worker == running_workers[slot_index]
           runner == worker.runner
           step == At(worker.scenario_data, runner.pc)
           next(r) == [r EXCEPT !.pc = r.pc + 1, !.i = 0]
       IN /\ runner.exc = "none" /\ runner.pc < Len(worker.scenario_data)
          /\ step.type = "action"
          /\ IF runner.i = 0 /\ ~alive
             THEN /\ running_workers' = [running_workers EXCEPT
                        ![slot_index].runner.exc = "TargetAppClosedError"]
                  /\ UNCHANGED <<element_text, tab_selected>>
             ELSE IF runner.i < Attempts(step)
             THEN \E fail_level \in 0..(Len(step.path) + 1) :
                     LET r == TryAction(step, NoneRow, fail_level,
                                        runner.runtime_variables, element_text,
                                        tab_selected)
                         done == [runner EXCEPT !.runtime_variables = r.rv]
                     IN /\ element_text' = r.text
                        /\ tab_selected' = r.selected
                        /\ running_workers' = [running_workers EXCEPT ![slot_index].runner =
                              IF r.exc = "none"
                              THEN next([done EXCEPT !.results =
                                      RecordStepResult(runner.results, step, "success",
                                                       1, "")])
                              ELSE [done EXCEPT !.last_exception = r.exc,
                                                !.i = runner.i + 1]]
             ELSE /\ LET failed == [runner EXCEPT !.results =
                            RecordStepResult(runner.results, step, "failure", 1,
                                             runner.last_exception)]
                     IN running_workers' = [running_workers EXCEPT ![slot_index].runner =
                           IF OnErrorPolicy(step).method = "stop"
                           THEN [failed EXCEPT !.exc = runner.last_exception]
                           ELSE next(failed)]
                  /\ UNCHANGED <<element_text, tab_selected>>
    /\ UNCHANGED <<phase, scenario, data_rows, data_driven, row_i, stack, exc,
                   runtime_variables, results, alive, call>>

\* the end of ScenarioWorker.run: run_scenario of the worker's runner returns
\* or raises (status, finally clause), the report is generated, in the try
\* clause after a return and in the except clause after an exception, and the
\* finished signal is emitted; reports tells for each call of
\* generate_html_report whether it returns.  An exception of the call in the
\* except clause leaves run before the signal is emitted.
WorkerEmits(slot_index) ==
    /\ running_workers[slot_index].at = "run"
    /\ \E reports \in [1..2 -> BOOLEAN] :
       LET worker == running_workers[slot_index]
           runner == worker.runner
           status == IF runner.exc = "none" THEN "Success" ELSE "Failure"
           ended == [worker EXCEPT !.runner.results =
                        Finally([runner.results EXCEPT !.summary.status = status])]
           emit(message) == [ended EXCEPT !.at = "emit", !.message = message,
                                          !.emitted = @ + 1]
           died == [ended EXCEPT !.at = "died"]
       IN /\ runner.exc # "none" \/ runner.pc >= Len(worker.scenario_data)
          /\ running_workers' = [running_workers EXCEPT ![slot_index] =
                IF runner.exc = "none" /\ reports[1] THEN emit("success")
                ELSE IF reports[2] THEN emit("failure")
                ELSE died]
    /\ UNCHANGED <<phase, scenario, data_rows, data_driven, row_i, stack, exc,
                   runtime_variables, results, alive, element_text, tab_selected, call>>

\* MainWindow.on_parallel_scenario_finished: the slot's worker is forgotten
OnParallelScenarioFinished(slot_index) ==
    /\ running_workers[slot_index].at = "emit"
    /\ running_workers' = [running_workers EXCEPT ![slot_index] = NoWorker]
    /\ UNCHANGED <<phase, scenario, data_rows, data_driven, row_i, stack, exc,
                   runtime_variables, results, alive, element_text, tab_selected, call>>

NextParallel ==
    \/ \E slot_index \in Slots, target_title \in {"", "app"},
          scenario_data \in ParallelScenarios :
          RunParallelScenario(slot_index, target_title, scenario_data)
    \/ \E slot_index \in Slots : WorkerConnects(slot_index)
    \/ \E slot_index \in Slots : WorkerStep(slot_index)
    \/ \E slot_index \in Slots : WorkerEmits(slot_index)
    \/ \E slot_index \in Slots : OnParallelScenarioFinished(slot_index)
    \/ AppDies

SpecParallel == InitParallel /\ [][NextParallel]_vars

---------------------------------------------------------------------------
(* Variable substitution: C6, C7 *)

InDict(d, key) == d[key] # Undef
InRow(data_row, key) == ~data_row.isNone /\ data_row.cols[key] # Undef

\* the text holds a placeholder whose name neither the store nor the row defines
HasUndefined(text, data_row, rv) ==
    /\ text # NonStr
    /\ \E k \in 1..Len(text) :
          text[k].ph /\ ~InDict(rv, text[k].s) /\ ~InRow(data_row, text[k].s)

Resolved == call.fn = "_resolve_variables" /\ call.done

\* C6: substitution of a text with a placeholder defined in neither the Variable
\* Store nor the active data row fails with the undefined-variable error, in
\* every state of the store and the row.
C6_UndefinedVariableFails ==
    (Resolved /\ HasUndefined(call.text, call.data_row, runtime_variables))
        => call.exc = "VariableNotFoundError"

RECURSIVE StoreFirst(_, _, _)
\* the text with each placeholder replaced by the store's value when the store
\* has the name and by the row's value otherwise
StoreFirst(text, data_row, rv) ==
    IF text = <<>> THEN ""
    ELSE LET h == Head(text)
             v == IF ~h.ph THEN h.raw
                  ELSE IF InDict(rv, h.s) THEN rv[h.s]
                  ELSE data_row.cols[h.s]
         IN v \o StoreFirst(Tail(text), data_row, rv)

\* C7: when every placeholder of a text is defined, substitution succeeds and
\* each placeholder yields the Variable Store's value if the store has the name,
\* even if the data row has it too, and the row's value only otherwise.
C7_StoreBeforeRow ==
    (Resolved /\ call.text # NonStr
              /\ ~HasUndefined(call.text, call.data_row, runtime_variables))
        => (call.exc = "none"
            /\ call.value = StoreFirst(call.text, call.data_row, runtime_variables))

\* a placeholder that both define, with different values, has been substituted
C7_Witness ==
    /\ Resolved /\ call.exc = "none"
    /\ call.text = <<Lit("a"), PhSp("x"), Ph("y")>> \/ call.text = <<PhSp("x"), Ph("y")>>
    /\ InDict(runtime_variables, "x") /\ InRow(call.data_row, "x")
    /\ runtime_variables["x"] # call.data_row.cols["x"]
    /\ ~InDict(runtime_variables, "y") /\ InRow(call.data_row, "y")

---------------------------------------------------------------------------
(* Block pairing: C10 *)

RECURSIVE StackMatch(_, _, _, _)
\* Reference matcher: one pass with a stack of the open blocks.  open holds
\* [start, sep] of the blocks not yet closed, innermost last; the result is the
\* set of [start, sep, end] of the closed blocks.
StackMatch(steps, i, open, closed) ==
    IF i >= Len(steps) THEN closed
    ELSE LET ct == IF At(steps, i).type = "control" THEN At(steps, i).control_type ELSE ""
             top == open[Len(open)]
         IN IF ct \in {"start_loop", "if_condition", "try_catch_start"}
            THEN StackMatch(steps, i + 1, Append(open, [start |-> i, sep |-> -1]), closed)
            ELSE IF ct \in {"else", "catch_separator"}
            THEN StackMatch(steps, i + 1, [open EXCEPT ![Len(open)].sep = i], closed)
            ELSE IF ct \in {"end_loop", "end_if", "try_catch_end"}
            THEN StackMatch(steps, i + 1, SubSeq(open, 1, Len(open) - 1),
                            closed \cup {[start |-> top.start, sep |-> top.sep, end |-> i]})
            ELSE StackMatch(steps, i + 1, open, closed)

BlockAt(steps, k) == CHOOSE b \in StackMatch(steps, 0, <<>>, {}) : b.start = k

Scanned == call.done /\ call.fn \in {"_find_matching_end", "_find_else_or_end_if",
                                     "_find_catch_or_end_try"}

\* C10: on a well-formed step list each scan returns, for every opener, the index
\* of the terminator the stack matcher pairs it with, and the if and try scans
\* also return the opener's own else / catch index, -1 when it has none.
C10_ScansAgreeWithStack ==
    Scanned =>
        /\ call.exc = "none"
        /\ call.end = BlockAt(call.steps, call.start_index).end
        /\ call.fn # "_find_matching_end"
              => call.sep = BlockAt(call.steps, call.start_index).sep

\* a try with a catch, scanned across an if that holds a loop and a nested try
C10_Witness ==
    /\ Scanned /\ call.fn = "_find_catch_or_end_try" /\ call.start_index = 0
    /\ Len(call.steps) >= 7
    /\ IsControl(At(call.steps, 1), "if_condition")
    /\ IsControl(At(call.steps, 2), "start_loop")
    /\ IsControl(At(call.steps, 3), "end_loop")
    /\ IsControl(At(call.steps, 4), "end_if")
    /\ call.sep = 5 /\ call.end = 6


---------------------------------------------------------------------------
(* Error policies: C1, C3, C4, C5 *)

Running == phase = "running" /\ exc = "none" /\ stack # <<>>

\* inside _execute_action with an attempt still to make
Attempting(method) ==
    /\ Running /\ Top.at = "action" /\ Top.i < Top.attempts
    /\ OnErrorPolicy(CurStep).method = method

\* inside _execute_action with every attempt failed
Exhausted(method) ==
    /\ Running /\ Top.at = "action" /\ Top.i >= Top.attempts
    /\ OnErrorPolicy(CurStep).method = method

Entry(step, frame, status, details) ==
    [id |-> step.id, iteration |-> frame.iteration_num, status |-> status,
     details |-> details]

LastResult == results.steps[Len(results.steps)]

\* the step of the scenario a StepResult belongs to
StepOf(entry) == scenario[CHOOSE k \in 1..Len(scenario) : scenario[k].id = entry.id]

\* the step the top frame has just left behind
PrevStep == At(Top.steps, Top.pc - 1)

\* C1: when every attempt of a Retry step has failed, the step behaves as Stop:
\* recording the failure raises the error, and execution does not move on to
\* the next step of the list.
C1_RetryExhaustedPropagates ==
    [][(Exhausted("retry") /\ results' # results)
          => (exc' # "none" /\ stack' = stack)]_vars

\* some caller on the stack is waiting in the try clause of a try block
InTryBody(st) == \E k \in 1..Len(st) : st[k].at = "try"

\* C3 as stated: a Failure StepResult of a Stop step is the last entry of the
\* trace, whatever happens after it.
C3_StopFailureIsLastResult ==
    \A k \in 1..Len(results.steps) :
        (/\ results.steps[k].status = "failure"
         /\ StepOf(results.steps[k]).type = "action"
         /\ OnErrorPolicy(StepOf(results.steps[k])).method = "stop")
            => k = Len(results.steps)

\* C3, amended: a failing Stop step records its Failure and raises, so its step
\* list is left at once; while the error propagates nothing is appended to the
\* trace, and an error raised outside every try-body stays raised until the run
\* ends, so no StepResult follows it.  Only the try clause of an enclosing try
\* block ends the propagation.
C3_StopAbortsUnlessCaught ==
    [][/\ (Exhausted("stop") /\ results' # results)
             => (/\ exc' = Top.last_exception /\ exc' # "none"
                 /\ stack' = stack
                 /\ results'.steps = Append(results.steps,
                        Entry(CurStep, Top, "failure", Top.last_exception)))
       /\ (phase = "running" /\ exc # "none")
             => results'.steps = results.steps
       /\ (phase = "running" /\ exc # "none" /\ ~InTryBody(stack))
             => (exc' = exc /\ ~InTryBody(stack') /\ phase' \in {"running", "raised"})]_vars

\* a run ended by the failure of a Stop step that was not the last of the list
C3_Witness ==
    /\ phase = "raised" /\ results.steps # <<>>
    /\ LastResult.status = "failure"
    /\ StepOf(LastResult).type = "action"
    /\ OnErrorPolicy(StepOf(LastResult)).method = "stop"
    /\ exc = LastResult.details
    /\ StepOf(LastResult) # scenario[Len(scenario)]

\* C4: a failing Continue step is attempted once, appends exactly one Failure
\* StepResult, raises nothing, and the interpreter goes on with the next step
\* of the same list.
C4_ContinueAbsorbsFailure ==
    [][/\ (Attempting("continue") /\ stack' # stack /\ stack'[Len(stack')].at = "action")
             => results' = results
       /\ (Exhausted("continue") /\ results' # results)
             => (/\ Top.i = 1
                 /\ results'.steps = Append(results.steps,
                        Entry(CurStep, Top, "failure", Top.last_exception))
                 /\ exc' = "none"
                 /\ stack' = SetTop([Top EXCEPT !.pc = Top.pc + 1, !.at = "step"]))]_vars

\* the interpreter stands at the step after a Continue step that failed
C4_Witness ==
    /\ Running /\ Top.at = "step" /\ 0 < Top.pc /\ Top.pc < Len(Top.steps)
    /\ PrevStep.type = "action" /\ OnErrorPolicy(PrevStep).method = "continue"
    /\ results.steps # <<>>
    /\ LastResult = Entry(PrevStep, Top, "failure", Top.last_exception)
    /\ Top.last_exception # "None"

\* C5: a Retry step whose attempts fail and then succeed appends nothing for
\* the failed attempts and exactly one StepResult, a Success, for the step.
C5_RetryRecordsOneSuccess ==
    [][Attempting("retry")
          => \/ results' = results
             \/ /\ results'.steps = Append(results.steps,
                                           Entry(CurStep, Top, "success", ""))
                /\ stack'[Len(stack')].at = "step"
                /\ exc' = "none"]_vars

\* a Retry step has succeeded after at least one failed attempt, and the trace
\* holds one entry for it
C5_Witness ==
    /\ Running /\ Top.at = "step" /\ Top.pc = 1 /\ Len(stack) = 1
    /\ PrevStep.type = "action" /\ OnErrorPolicy(PrevStep).method = "retry"
    /\ Top.i >= 1 /\ Top.i < Top.attempts /\ Top.last_exception # "None"
    /\ results.steps = <<Entry(PrevStep, Top, "success", "")>>

---------------------------------------------------------------------------
(* Target lost: C2 *)

\* C2: a target-lost error is never intercepted: once raised it stays the
\* error of the run until run_scenario re-raises it, and the run ends with
\* status Failure.
C2_TargetLostNeverCaught ==
    [][(phase = "running" /\ exc = "TargetAppClosedError")
          => (/\ exc' = "TargetAppClosedError"
              /\ phase' = "raised" => results'.summary.status = "Failure")]_vars


---------------------------------------------------------------------------
(* Data-driven runs and the summary: C8, C9 *)

Iterations(steps) == {steps[k].iteration : k \in 1..Len(steps)}

Ended == phase \in {"returned", "raised"}

\* a row's execution is about to evaluate its first step
RowStart ==
    /\ phase = "running" /\ data_driven /\ Len(stack) = 1
    /\ stack[1].at = "step" /\ stack[1].pc = 0

RECURSIVE TopLevel(_, _)
\* the indexes the outermost invocation of _execute_steps evaluates from pc on,
\* when no step raises: a block is stepped over from its opener to its end
TopLevel(steps, pc) ==
    IF pc >= Len(steps) THEN {}
    ELSE LET step == At(steps, pc)
             m == IF IsControl(step, "start_loop")
                  THEN FindMatchingEnd(steps, pc, "start_loop", "end_loop")
                  ELSE IF IsControl(step, "if_condition") THEN FindElseOrEndIf(steps, pc)
                  ELSE IF IsControl(step, "try_catch_start")
                       THEN FindCatchOrEndTry(steps, pc)
                  ELSE [exc |-> "none", sep |-> -1, end |-> pc]
         IN IF m.exc # "none" THEN {pc}
            ELSE {pc} \cup TopLevel(steps, m.end + 1)

\* a step that appends a StepResult whenever it completes
Recording(step) == step.type = "action" \/ IsControl(step, "wait_for_condition")

\* C8 as stated: the trace of a data-driven run over N rows has exactly the
\* iteration numbers 1..N, and the Variable Store is empty when a row starts.
C8_IterationsAreAllRows ==
    /\ (Ended /\ data_driven) => Iterations(results.steps) = 1..Len(data_rows)
    /\ RowStart => IsEmptyDict(runtime_variables)

\* C8, amended: the iteration numbers of the trace of a data-driven run over N
\* rows lie in 1..N, none beyond the row being executed; they are exactly 1..N
\* when the run returns without error and the step list has an action or wait
\* step outside every block; and the Variable Store is empty when a row starts.
C8_IterationsWithinRows ==
    /\ (data_driven /\ phase # "idle")
          => Iterations(results.steps) \subseteq 1..row_i /\ row_i <= Len(data_rows)
    /\ (data_driven /\ phase = "returned"
          /\ \E k \in TopLevel(scenario, 0) : Recording(At(scenario, k)))
          => Iterations(results.steps) = 1..Len(data_rows)
    /\ RowStart => IsEmptyDict(runtime_variables)

\* a second row starts after the first row's get_text has written the store
C8_Witness ==
    /\ RowStart /\ row_i = 2
    /\ \E k \in 1..Len(results.steps) :
          /\ results.steps[k].status = "success" /\ results.steps[k].iteration = 1
          /\ StepOf(results.steps[k]).action = "get_text"
    /\ IsEmptyDict(runtime_variables)

\* C9: when run_scenario has returned or raised, passed_steps + failed_steps =
\* total_steps = the number of StepResults of the trace.
C9_SummaryCountsAddUp ==
    Ended => /\ results.summary.passed_steps + results.summary.failed_steps
                    = results.summary.total_steps
             /\ results.summary.total_steps = Len(results.steps)

\* a run that raised with both passed and failed steps in its trace
C9_Witness ==
    /\ phase = "raised"
    /\ results.summary.passed_steps >= 1 /\ results.summary.failed_steps >= 2
    /\ results.summary.total_steps = Len(results.steps)

---------------------------------------------------------------------------
(* Control blocks: C11, C12, C13 *)

\* the frame under the top one: the caller of the running invocation
Caller == stack[Len(stack) - 1]

\* the running invocation of _execute_steps has no step left and returns
Returning == Running /\ Top.at = "step" /\ Top.pc >= Len(Top.steps)

\* the top frame of the stack after the step
NewTop == stack'[Len(stack')]

\* the frame that was on top, after the step
OldTop == stack'[Len(stack)]

\* a call of _execute_steps on body is made from the top frame, left in state at
Calls(body, at) ==
    /\ Len(stack') = Len(stack) + 1
    /\ NewTop = NewFrame(body, Top.data_row, Top.iteration_num)
    /\ OldTop.at = at /\ OldTop.pc = Top.pc /\ OldTop.steps = Top.steps
    /\ SubSeq(stack', 1, Len(stack) - 1) = Pop(stack)

\* the top frame goes on at index pc of its own list
ResumesAt(pc) ==
    /\ Len(stack') = Len(stack)
    /\ NewTop.at = "step" /\ NewTop.pc = pc /\ NewTop.steps = Top.steps
    /\ Pop(stack') = Pop(stack)

\* the top frame stands at the head of the for loop of a start_loop
InLoop == Running /\ Top.at = "loop"

LoopCount == IF CurStep.iterations = <<>> THEN 1 ELSE CurStep.iterations[1]
LoopEnd == FindMatchingEnd(Top.steps, Top.pc, "start_loop", "end_loop").end

\* C11: a start_loop of n iterations with a matching end_loop is entered with no
\* iteration made; while fewer than n are made the next one calls _execute_steps
\* on the steps strictly between the two markers, from the first of them; a body
\* that returns hands control back to the loop and to nothing else; and after
\* the n-th the list is resumed at the step after the end_loop.
C11_LoopRunsBodyNTimes ==
    [][/\ (AtStep /\ alive /\ IsControl(CurStep, "start_loop") /\ stack' # stack)
             => (/\ Len(stack') = Len(stack) /\ Pop(stack') = Pop(stack)
                 /\ NewTop.at = "loop" /\ NewTop.loop_i = 0
                 /\ NewTop.pc = Top.pc /\ NewTop.steps = Top.steps)
       /\ (InLoop /\ stack' # stack)
             => IF Top.loop_i < LoopCount
                THEN /\ Calls(Slice(Top.steps, Top.pc + 1, LoopEnd), "loop")
                     /\ OldTop.loop_i = Top.loop_i + 1
                ELSE /\ Top.loop_i = LoopCount
                     /\ ResumesAt(LoopEnd + 1)
       /\ (Returning /\ Len(stack) >= 2 /\ Caller.at = "loop" /\ stack' # stack)
             => stack' = Pop(stack)
       /\ InLoop => results' = results /\ exc' = "none"]_vars

\* the loop of MaxLoop iterations has been left for the step after its end_loop,
\* with one StepResult for each of its iterations
C11_Witness ==
    /\ Running /\ Len(stack) = 1 /\ Top.at = "step" /\ Top.steps # <<>>
    /\ IsControl(At(Top.steps, 0), "start_loop")
    /\ Top.pc = FindMatchingEnd(Top.steps, 0, "start_loop", "end_loop").end + 1
    /\ Top.loop_i = MaxLoop
    /\ Len(results.steps) = MaxLoop

\* the top frame is about to execute an if_condition whose end_if is found
AtIf ==
    /\ AtStep /\ alive /\ IsControl(CurStep, "if_condition")
    /\ FindElseOrEndIf(Top.steps, Top.pc).exc = "none"

IfElse == FindElseOrEndIf(Top.steps, Top.pc).sep
IfEnd == FindElseOrEndIf(Top.steps, Top.pc).end

\* C12: executing an if_condition evaluates the condition once, into
\* condition_result, records nothing, and makes at most one call: on the steps
\* up to the else (or the end_if) when the result is true, on the steps between
\* else and end_if when it is false and there is an else, none otherwise; an
\* element_exists condition on an element the surface does not show is false;
\* and a body that returns resumes the list just after the end_if.
C12_IfRunsOneBranch ==
    [][/\ (AtIf /\ stack' # stack)
             => (/\ OldTop.condition_result \in BOOLEAN
                 /\ OldTop.condition_result
                       => Calls(Slice(Top.steps, Top.pc + 1,
                                      IF IfElse # -1 THEN IfElse ELSE IfEnd), "if")
                 /\ (~OldTop.condition_result /\ IfElse # -1)
                       => Calls(Slice(Top.steps, IfElse + 1, IfEnd), "if")
                 /\ (~OldTop.condition_result /\ IfElse = -1)
                       => ResumesAt(IfEnd + 1))
       /\ AtIf => results' = results
       /\ (AtIf /\ CurStep.condition.type = "element_exists")
             => LET r == CheckCondition(CurStep.condition, runtime_variables, FALSE)
                IN r.exc = "none" => ~r.result
       /\ (Returning /\ Len(stack) >= 2 /\ Caller.at = "if" /\ stack' # stack)
             => (/\ Len(stack') = Len(stack) - 1
                 /\ NewTop.at = "step" /\ NewTop.steps = Caller.steps
                 /\ NewTop.pc = FindElseOrEndIf(Caller.steps, Caller.pc).end + 1
                 /\ Pop(stack') = SubSeq(stack, 1, Len(stack) - 2))]_vars

\* the else-body of an if block whose element_exists condition was false has
\* been executed to its end, and the if-body was not
C12_Witness ==
    /\ Returning /\ Len(stack) >= 2 /\ Caller.at = "if"
    /\ Caller.condition_result = FALSE /\ Caller.sep_index # -1
    /\ Top.steps = Slice(Caller.steps, Caller.sep_index + 1, Caller.end_index)
    /\ Top.steps # <<>>
    /\ results.steps # <<>> /\ LastResult.id = Top.steps[Len(Top.steps)].id
    /\ \A k \in 1..Len(results.steps) : results.steps[k].id # At(Caller.steps, Caller.pc + 1).id

\* the errors the error policies are about: resolution, action and wait failures
PolicyErrors == {"TimeoutError", "ActionError", "VariableNotFoundError"}

\* an error is leaving the try-body of a try block
EscapesTryBody ==
    /\ phase = "running" /\ exc # "none" /\ Len(stack) >= 2 /\ Caller.at = "try"

TryCatch == FindCatchOrEndTry(Caller.steps, Caller.pc).sep
TryEnd == FindCatchOrEndTry(Caller.steps, Caller.pc).end

\* the frame that called the top one goes on at index pc of its list
CallerResumesAt(pc) ==
    /\ Len(stack') = Len(stack) - 1
    /\ NewTop.at = "step" /\ NewTop.steps = Caller.steps /\ NewTop.pc = pc
    /\ Pop(stack') = SubSeq(stack, 1, Len(stack) - 2)

\* C13: a resolution, action or wait failure that leaves a try-body is swallowed
\* at the try block: the catch-body, when there is one, is called and otherwise
\* the list is resumed after the try_catch_end; a try-body or catch-body that
\* returns resumes the list after the try_catch_end, the catch-body not being
\* run after a try-body that returned; the trace is untouched, so the Failure
\* stays in it; and a run that returns has status Success.
C13_TrySwallowsFailure ==
    [][/\ (EscapesTryBody /\ exc \in PolicyErrors /\ stack' # stack)
             => (/\ exc' = "none"
                 /\ results' = results
                 /\ IF TryCatch # -1
                    THEN /\ Len(stack') = Len(stack)
                         /\ NewTop = NewFrame(Slice(Caller.steps, TryCatch + 1, TryEnd),
                                              Caller.data_row, Caller.iteration_num)
                         /\ stack'[Len(stack) - 1].at = "catch"
                         /\ stack'[Len(stack) - 1].pc = Caller.pc
                    ELSE CallerResumesAt(TryEnd + 1))
       /\ (Returning /\ Len(stack) >= 2 /\ Caller.at \in {"try", "catch"}
             /\ stack' # stack)
             => CallerResumesAt(TryEnd + 1)
       /\ phase' = "returned" => results'.summary.status = "Success"]_vars

\* a run has returned with status Success although an action of a try-body
\* failed under Stop; the catch-body and the step after the block ran after it
C13_Witness ==
    /\ phase = "returned" /\ results.summary.status = "Success"
    /\ Len(results.steps) = 3
    /\ results.steps[1].status = "failure" /\ results.steps[1].id = "a"
    /\ results.steps[1].details \in PolicyErrors
    /\ results.steps[2].id = "d" /\ results.steps[3].id = "f"
    /\ IsControl(scenario[1], "try_catch_start")

---------------------------------------------------------------------------
(* Errors that bypass the policies: C14, C15, C16 *)

\* the top frame stands at an opener whose terminator its list does not hold
AtUnmatchedOpener ==
    /\ AtStep /\ alive /\ CurStep.type = "control"
    /\ \/ /\ CurStep.control_type = "start_loop"
          /\ FindMatchingEnd(Top.steps, Top.pc, "start_loop", "end_loop").exc # "none"
       \/ /\ CurStep.control_type = "if_condition"
          /\ FindElseOrEndIf(Top.steps, Top.pc).exc # "none"
       \/ /\ CurStep.control_type = "try_catch_start"
          /\ FindCatchOrEndTry(Top.steps, Top.pc).exc # "none"

\* C14 as stated: a structural error is raised by the execution of an opener
\* without terminator and by nothing else, and once raised it stays the error of
\* the run until run_scenario re-raises it with status Failure, wherever the
\* opener sits.
C14_StructuralErrorIsFatal ==
    [][/\ (phase = "running" /\ exc # "SyntaxError" /\ exc' = "SyntaxError")
             => AtUnmatchedOpener
       /\ (phase = "running" /\ exc = "SyntaxError")
             => (/\ exc' = "SyntaxError"
                 /\ phase' \in {"running", "raised"}
                 /\ phase' = "raised" => results'.summary.status = "Failure")]_vars

\* C14, amended: a structural error is raised by the execution of an opener
\* without terminator, at once and by nothing else, with nothing recorded; raised
\* outside every try-body it stays the error of the run, which ends with status
\* Failure; leaving a try-body it is intercepted by the try block.
C14_StructuralErrorFatalUnlessCaught ==
    [][/\ (phase = "running" /\ exc # "SyntaxError" /\ exc' = "SyntaxError")
             => (AtUnmatchedOpener /\ stack' = stack /\ results' = results)
       /\ (AtUnmatchedOpener /\ <<stack, exc, results>>' # <<stack, exc, results>>)
             => exc' = "SyntaxError"
       /\ (phase = "running" /\ exc = "SyntaxError" /\ ~InTryBody(stack))
             => (/\ exc' = "SyntaxError" /\ ~InTryBody(stack')
                 /\ phase' \in {"running", "raised"}
                 /\ phase' = "raised" => results'.summary.status = "Failure")
       /\ (EscapesTryBody /\ exc = "SyntaxError" /\ stack' # stack)
             => exc' = "none"]_vars

\* a run has raised the structural error of a start_loop without end_loop, after
\* the step before the opener was executed and recorded
C14_Witness ==
    /\ phase = "raised" /\ exc = "SyntaxError"
    /\ results.summary.status = "Failure"
    /\ Len(scenario) = 3 /\ IsControl(scenario[2], "start_loop")
    /\ results.steps = <<[id |-> scenario[1].id, iteration |-> 1,
                          status |-> "success", details |-> ""]>>

\* the attempt just made of the action at hand failed with a caller error
CallerErrorAtHand == Running /\ Top.at = "action" /\ Top.last_exception = "ValueError"

\* C15: after an attempt of an action step has failed with a caller error, the
\* engine does nothing but raise that error: no further attempt is made under
\* Retry and the next step is not reached under Continue.
C15_CallerErrorBypassesPolicy ==
    [][(CallerErrorAtHand /\ <<stack, results, exc>>' # <<stack, results, exc>>)
          => (exc' = "ValueError" /\ stack' = stack)]_vars

\* C16: at the head of the while loop of every invocation of _execute_steps a
\* dead surface raises the target-lost error: the step is not begun and nothing
\* is recorded for it; and the error, once raised, ends the run: it is not
\* dropped, nothing more is recorded and the run does not go on.
C16_DeadSurfaceAbortsRun ==
    [][/\ (AtStep /\ ~alive)
             => (/\ exc' = "TargetAppClosedError"
                 /\ results' = results /\ stack' = stack
                 /\ runtime_variables' = runtime_variables
                 /\ element_text' = element_text)
       /\ (phase = "running" /\ exc = "TargetAppClosedError" /\ stack # <<>>)
             => (/\ exc' = "TargetAppClosedError"
                 /\ results'.steps = results.steps
                 /\ Len(stack') < Len(stack))]_vars

---------------------------------------------------------------------------
(* Wait steps and the trace: C17, C18, C19, C20 *)

\* the top frame is about to execute a wait_for_condition step
AtWait == AtStep /\ alive /\ IsControl(CurStep, "wait_for_condition")

\* C17: executing a wait step appends exactly one StepResult: a Success, and the
\* list goes on with the next step, or a Failure carrying the error, and that
\* error is raised from the step, whatever onError the step carries.
C17_WaitAttemptedOnce ==
    [][(AtWait /\ <<stack, results, exc>>' # <<stack, results, exc>>)
          => \/ /\ results'.steps = Append(results.steps,
                                           Entry(CurStep, Top, "success", ""))
                /\ exc' = "none"
                /\ ResumesAt(Top.pc + 1)
             \/ /\ exc' \in {"TimeoutError", "VariableNotFoundError"}
                /\ results'.steps = Append(results.steps,
                                           Entry(CurStep, Top, "failure", exc'))
                /\ stack' = stack]_vars

\* a wait step whose onError is Continue has timed out: its Failure is the last
\* entry of the trace and the error is raised
C17_Witness ==
    /\ phase = "running" /\ exc = "TimeoutError" /\ stack # <<>>
    /\ Top.at = "step" /\ Top.pc < Len(Top.steps)
    /\ IsControl(CurStep, "wait_for_condition")
    /\ CurStep.onError.method = "continue"
    /\ results.steps # <<>>
    /\ LastResult = Entry(CurStep, Top, "failure", "TimeoutError")

\* the iteration number of the data row being executed, 1 in a run without data
CurrentIteration == IF data_driven THEN row_i ELSE 1

\* the step at hand is left by this step of the engine: an error other than
\* target-lost is raised from it, or its list goes on past it
StepLeft ==
    \/ exc' \notin {"none", "TargetAppClosedError"}
    \/ Len(stack') = Len(stack) /\ NewTop.pc # Top.pc

\* C18: during a run the trace changes only by appending, at its end, one
\* StepResult for the action or wait step being executed, tagged with the
\* iteration number of the current data row (1 without data), and that step is
\* left at once; and every action or wait step that is left has appended one.
\* Control steps other than wait append nothing.
C18_OneResultPerExecutedStep ==
    [][/\ (phase = "running" /\ results'.steps # results.steps)
             => (/\ Running /\ Top.pc < Len(Top.steps)
                 /\ Recording(CurStep)
                 /\ \E status \in {"success", "failure"},
                       details \in {"", "TimeoutError", "ActionError", "ValueError",
                                    "VariableNotFoundError", "None"} :
                       results'.steps = Append(results.steps,
                           [id |-> CurStep.id, iteration |-> CurrentIteration,
                            status |-> status, details |-> details])
                 /\ StepLeft)
       /\ (Running /\ Top.at \in {"step", "action"} /\ Top.pc < Len(Top.steps)
             /\ Recording(CurStep) /\ StepLeft)
             => Len(results'.steps) = Len(results.steps) + 1
       /\ (phase # "running" /\ phase' = "running") => results'.steps = <<>>]_vars

\* a data-driven run over two rows has returned: the two steps of the list have
\* an entry for each row, in the order of execution
C18_Witness ==
    /\ phase = "returned" /\ data_driven /\ Len(data_rows) = 2
    /\ Len(results.steps) = 4
    /\ <<results.steps[1].id, results.steps[2].id,
         results.steps[3].id, results.steps[4].id>> = <<"a", "b", "a", "b">>
    /\ <<results.steps[1].iteration, results.steps[2].iteration,
         results.steps[3].iteration, results.steps[4].iteration>> = <<1, 1, 2, 2>>

\* C19 as stated: a run that has raised has status Failure and a trace whose
\* last entry is a Failure carrying the error the run raised.
C19_AbortEndsOnFailureEntry ==
    phase = "raised"
        => /\ results.summary.status = "Failure"
           /\ results.steps # <<>>
           /\ LastResult.status = "failure"
           /\ LastResult.details = exc

\* an error is raised from the action or wait step at hand
RaisedByStep ==
    /\ Running /\ Top.pc < Len(Top.steps) /\ Recording(CurStep)
    /\ exc' \notin {"none", "TargetAppClosedError"}

\* C19, amended: an error raised from an action or wait step leaves the Failure
\* entry of that step, carrying the error, at the end of the trace; every other
\* error (structural, target-lost, raised by an if condition) is raised with the
\* trace untouched; while an error propagates the trace is untouched; and a run
\* that raises re-raises that error with status Failure.
C19_AbortAfterStepFailure ==
    [][/\ RaisedByStep
             => results'.steps = Append(results.steps,
                                        Entry(CurStep, Top, "failure", exc'))
       /\ (Running /\ exc' # "none" /\ ~RaisedByStep) => results' = results
       /\ (phase = "running" /\ exc # "none") => results'.steps = results.steps
       /\ (phase = "running" /\ phase' = "raised")
             => (/\ exc # "none" /\ exc' = exc
                 /\ results'.summary.status = "Failure")
       /\ (phase = "running" /\ phase' = "returned") => exc = "none"]_vars

\* a run has raised the undefined-variable error of a set_text step: status
\* Failure, and the last entry of the trace is that step's Failure
C19_Witness ==
    /\ phase = "raised" /\ exc = "VariableNotFoundError"
    /\ results.summary.status = "Failure"
    /\ results.steps # <<>>
    /\ LastResult.status = "failure" /\ LastResult.details = exc
    /\ StepOf(LastResult).action = "set_text"
    /\ results.summary.failed_steps >= 1

\* the list [SetText(text = "{{x}}"), GetText(variable_name = "y")] on one element
EchoScenario == <<SetText("a", <<Ph("x")>>, Stop), GetText("b", "y", Stop)>>

\* a data-driven run of EchoScenario over the single row {x: "hello"} has returned
EchoRunReturned ==
    /\ phase = "returned" /\ scenario = EchoScenario
    /\ data_driven /\ data_rows = <<[x |-> "hello", y |-> Undef]>>

\* C20: a run of EchoScenario over the data row {x: "hello"} that returns leaves
\* "hello" in the variable y, status Success and total_steps = 2, both entries
\* being Successes.
C20_EchoRoundTrip ==
    EchoRunReturned
        => /\ runtime_variables["y"] = "hello"
           /\ results.summary.status = "Success"
           /\ results.summary.total_steps = 2
           /\ results.summary.passed_steps = 2

\* such a run has returned, on a surface that was alive to the end
C20_Witness ==
    /\ EchoRunReturned /\ alive
    /\ element_text = "hello"
    /\ Len(results.steps) = 2

---------------------------------------------------------------------------
(* The Variable Store and the trace over time: C21, C22 *)

\* run_scenario is entered, or the next data row is taken
RunOrRowStarts ==
    \/ phase # "running" /\ phase' = "running"
    \/ phase = "running" /\ stack = <<>> /\ stack' # <<>>

\* an attempt of the get_text step at hand succeeds
GetTextSucceeds ==
    /\ Running /\ Top.at = "action" /\ CurStep.action = "get_text"
    /\ results'.steps = Append(results.steps, Entry(CurStep, Top, "success", ""))

\* C21: the Variable Store is emptied when a run or a data row starts; apart
\* from that it changes only with a successful attempt of a get_text step, which
\* binds the step's variable_name to the element's text and leaves every other
\* name as it was.  No other step of the engine changes it.
C21_StoreWrittenOnlyByGetText ==
    [][/\ RunOrRowStarts => IsEmptyDict(runtime_variables')
       /\ (runtime_variables' # runtime_variables /\ ~RunOrRowStarts)
             => (/\ GetTextSucceeds
                 /\ runtime_variables' =
                       [runtime_variables EXCEPT ![CurStep.params.variable_name] =
                                                     element_text])]_vars

\* the second iteration of a loop starts with the value still bound that the
\* get_text of its first iteration wrote
C21_Witness ==
    /\ Running /\ Len(stack) = 2 /\ Caller.at = "loop" /\ Caller.loop_i = 2
    /\ Top.at = "step" /\ Top.pc = 0 /\ Top.steps # <<>>
    /\ CurStep.action = "get_text" /\ CurStep.params.variable_name = "x"
    /\ InDict(runtime_variables, "x")
    /\ Len(results.steps) = 2

\* s is an initial segment of t
IsPrefix(s, t) == Len(s) <= Len(t) /\ SubSeq(t, 1, Len(s)) = s

\* C22: from the entry of run_scenario to its end every step of the engine
\* leaves the entries of the trace in place and at most appends to them; and an
\* invocation of run_scenario starts from an empty trace and a summary with
\* status In Progress and zero counts, whatever the previous run left.
C22_TraceAppendOnly ==
    [][/\ phase = "running" => IsPrefix(results.steps, results'.steps)
       /\ (phase # "running" /\ phase' = "running")
             => (/\ results'.steps = <<>>
                 /\ results'.summary.status = "In Progress"
                 /\ results'.summary.total_steps = 0
                 /\ results'.summary.passed_steps = 0
                 /\ results'.summary.failed_steps = 0)]_vars

\* a run that follows a run with a non-empty trace has been entered: its trace
\* is empty and its summary fresh
C22_Witness ==
    /\ phase = "running" /\ results.steps = <<>>
    /\ results.summary.status = "In Progress" /\ results.summary.total_steps = 0
    /\ element_text = "hello" /\ ~alive

---------------------------------------------------------------------------
(* C23: concurrent runs share no mutable engine state *)

\* the step identifiers of a worker's scenario
OwnIds(worker) ==
    {worker.scenario_data[k].id : k \in 1..Len(worker.scenario_data)}

\* the variable names the get_text steps of a worker's scenario store into
OwnNames(worker) ==
    {worker.scenario_data[k].params.variable_name :
        k \in {j \in 1..Len(worker.scenario_data) :
                  worker.scenario_data[j].action = "get_text"}}

\* the runner of a worker holds entries of its own scenario only
OwnStateOnly(worker) ==
    /\ \A k \in 1..Len(worker.runner.results.steps) :
          worker.runner.results.steps[k].id \in OwnIds(worker)
    /\ \A name \in Names :
          InDict(worker.runner.runtime_variables, name) => name \in OwnNames(worker)

\* C23: each concurrent run has its own engine instance: a step that changes
\* the worker of one slot leaves the store, the trace and the position of
\* every other slot's runner as they were, and a runner's store and trace
\* hold only what its own scenario wrote
C23_RunsShareNoEngineState ==
    [][/\ \A s \in Slots, t \in Slots :
             (s # t /\ running_workers'[s] # running_workers[s])
                => running_workers'[t] = running_workers[t]
       /\ \A s \in Slots : OwnStateOnly(running_workers'[s])]_vars

\* two slots run different scenarios at once, each with a variable bound and a
\* step recorded
C23_Witness ==
    /\ running_workers[0].at = "run" /\ running_workers[1].at = "run"
    /\ running_workers[0].scenario_data # running_workers[1].scenario_data
    /\ \A s \in Slots :
          /\ running_workers[s].runner.runtime_variables # EmptyDict
          /\ running_workers[s].runner.results.steps # <<>>

---------------------------------------------------------------------------
(* C24: an undefined variable in an action's parameters is an action failure *)

\* the last attempt of the action step at hand raised an undefined-variable error
UndefinedVariableAtHand ==
    /\ Running /\ Top.at = "action"
    /\ Top.i > 0 /\ Top.last_exception = "VariableNotFoundError"

\* C24: an undefined-variable error raised while an action step's parameters
\* are substituted is handled by the step's error policy like any other
\* failure of the action: while the Retry policy has attempts left the step
\* is attempted again and nothing is raised or recorded for it; when the
\* attempts are used up one Failure carrying the error is recorded, and then
\* the error is raised under Stop, and the run goes on with the next step
\* under Continue and Retry. The error never leaves an action step otherwise.
C24_UndefinedVariableUnderPolicy ==
    [][/\ (UndefinedVariableAtHand /\ <<stack, results, exc>>' # <<stack, results, exc>>)
             => IF Top.i < Top.attempts
                THEN /\ OnErrorPolicy(CurStep).method = "retry"
                     /\ exc' = "none"
                     /\ \/ /\ results' = results
                           /\ stack' = SetTop([Top EXCEPT !.i = Top.i + 1,
                                                  !.last_exception =
                                                      NewTop.last_exception,
                                                  !.lookups = NewTop.lookups])
                        \/ /\ results'.steps =
                                 Append(results.steps, Entry(CurStep, Top, "success", ""))
                           /\ ResumesAt(Top.pc + 1)
                ELSE /\ results'.steps =
                           Append(results.steps,
                                  Entry(CurStep, Top, "failure", "VariableNotFoundError"))
                     /\ IF OnErrorPolicy(CurStep).method = "stop"
                        THEN exc' = "VariableNotFoundError" /\ stack' = stack
                        ELSE exc' = "none" /\ ResumesAt(Top.pc + 1)
       /\ (Running /\ Top.at = "action" /\ exc' = "VariableNotFoundError")
             => (/\ UndefinedVariableAtHand
                 /\ Top.i >= Top.attempts
                 /\ OnErrorPolicy(CurStep).method = "stop")]_vars

\* every attempt of a set_text step under Retry raised the undefined-variable
\* error: its one Failure is recorded and the run is at the next step
C24_Witness ==
    /\ Running /\ Top.at = "step" /\ Top.pc > 0
    /\ At(Top.steps, Top.pc - 1).type = "action"
    /\ At(Top.steps, Top.pc - 1).onError.method = "retry"
    /\ results.steps # <<>>
    /\ LastResult = Entry(At(Top.steps, Top.pc - 1), Top, "failure",
                          "VariableNotFoundError")
    /\ Count(results.steps, "failure") = 1

---------------------------------------------------------------------------
(* C25: the number of attempts of an action step *)

\* the attempts the policy of a step allows: 1 under Stop and Continue, n
\* under Retry{n}, 3 under Retry without a retries value
Allowed(step) ==
    IF step.onError.method = "retry"
    THEN (IF step.onError.retries = <<>> THEN 3 ELSE step.onError.retries[1])
    ELSE 1

\* the attempt loop of an action step is running; Top.i attempts have failed
InAttemptLoop == Running /\ Top.at = "action"

\* C25: an action step is attempted again only while fewer attempts than its
\* policy allows have failed; its first success, at attempt k+1 after k
\* failures with k+1 within the allowed number, ends the step with no further
\* attempt; its Failure is recorded when exactly the allowed number of
\* attempts has failed: 1 under Stop and Continue, n under Retry{n}, 3 under
\* Retry without a retries value.
C25_AttemptCount ==
    [][(InAttemptLoop /\ <<stack, results, exc>>' # <<stack, results, exc>>)
          => \/ /\ Top.i < Allowed(CurStep)
                /\ results' = results /\ exc' = "none"
                /\ stack' = SetTop([Top EXCEPT !.i = Top.i + 1,
                                               !.last_exception = NewTop.last_exception,
                                               !.lookups = NewTop.lookups])
             \/ /\ Top.i + 1 <= Allowed(CurStep)
                /\ results'.steps =
                      Append(results.steps, Entry(CurStep, Top, "success", ""))
                /\ exc' = "none"
                /\ ResumesAt(Top.pc + 1)
             \/ /\ Top.i = Allowed(CurStep)
                /\ results'.steps =
                      Append(results.steps,
                             Entry(CurStep, Top, "failure", Top.last_exception))
                /\ \/ exc' # "none" /\ stack' = stack
                   \/ exc' = "none" /\ ResumesAt(Top.pc + 1)]_vars

\* a step under Retry without a retries value has failed three times and its
\* attempts are used up
C25_Witness ==
    /\ InAttemptLoop
    /\ CurStep.onError = RetryDefault
    /\ Top.i = 3 /\ Top.i = Top.attempts

---------------------------------------------------------------------------
(* C26: markers met without their opener *)

\* the interpreter is at a control step that no branch of _execute_steps
\* handles, and the liveness check of the step has passed
AtStrayMarker ==
    /\ AtStep /\ alive
    /\ CurStep.type = "control"
    /\ CurStep.control_type \notin
          {"start_loop", "if_condition", "try_catch_start", "wait_for_condition"}

\* C26: a control marker the interpreter meets itself (else, catch_separator,
\* end_loop, end_if, try_catch_end, or an unknown control type) is a no-op:
\* the step taken from it moves the program counter on by one and leaves the
\* trace, the summary, the Variable Store and the surface as they were, and
\* raises nothing.
C26_StrayMarkerIsNoOp ==
    [][(AtStrayMarker /\ <<stack, results, exc, runtime_variables, element_text,
                           tab_selected, phase>>'
                         # <<stack, results, exc, runtime_variables, element_text,
                             tab_selected, phase>>)
          => /\ ResumesAt(Top.pc + 1)
             /\ UNCHANGED <<results, runtime_variables, element_text, tab_selected,
                            phase>>
             /\ exc' = "none"]_vars

\* after a get_text the run has passed else, catch_separator, end_loop,
\* try_catch_end, group and end_group: the trace holds the one entry of the
\* get_text and the run is at the step after the markers
C26_Witness ==
    /\ Running /\ Top.at = "step" /\ Top.pc = 7 /\ Len(Top.steps) = 8
    /\ At(Top.steps, 1).control_type = "else"
    /\ At(Top.steps, 6).control_type = "end_group"
    /\ Len(results.steps) = 1
    /\ InDict(runtime_variables, "x")

---------------------------------------------------------------------------
(* C27: the fallback chains *)

\* the techniques of each chain, in the order of the claim
Chain(fn) ==
    IF fn = "_safe_click" THEN <<"click_input", "click">>
    ELSE IF fn = "_safe_set_text" THEN <<"set_edit_text", "type_keys">>
    ELSE <<"window_text", "texts">>

\* C27: a fallback chain invokes its techniques in fixed order (click:
\* click_input then click; set text: set_edit_text then type_keys; get text:
\* window_text then the joined texts), invokes nothing after the first
\* technique that does not raise, and when both raise it fails with the
\* error of the last one.
C27_FallbackChain ==
    call.done =>
        /\ call.invoked = IF call.e1 = "none" THEN <<Chain(call.fn)[1]>>
                          ELSE Chain(call.fn)
        /\ call.exc = IF call.e1 = "none" THEN "none" ELSE call.e2

\* both techniques of the set-text chain raised, with different errors
C27_Witness ==
    /\ call.done /\ call.fn = "_safe_set_text"
    /\ call.e1 = "TimeoutError" /\ call.e2 = "ElementNotEnabled"
    /\ call.invoked = <<"set_edit_text", "type_keys">>
    /\ call.exc = "ElementNotEnabled"

---------------------------------------------------------------------------
(* C28: resolution is idempotent *)

\* the parents of a path that are tab items
TabLevels(path) == {k \in 0..(Len(path) - 2) : At(path, k).control_type = "TabItem"}

---------------------------------------------------------------------------
(* C29: one resolution per attempt *)

\* the lookups of one resolution of a path: the parents 0, 1, ... in order,
\* each once, the walk ending where a parent did not show up
WalkFromRoot(walk, path) ==
    /\ Len(walk) <= Len(path) - 1
    /\ \A k \in 1..Len(walk) : walk[k] = k - 1

\* C29: the path of an action step is resolved once in each attempt and at no
\* other time: a new step starts with no resolution made, each attempt of a
\* step with a path adds one resolution, which looks the parents up from the
\* main window on, each once, and ends at the level that is not found, and
\* after i failed attempts exactly i resolutions have been made.
C29_OneResolutionPerAttempt ==
    [][/\ (Running /\ Len(stack') >= Len(stack) /\ OldTop.lookups # Top.lookups)
             => \/ /\ AtStep
                   /\ OldTop.at = "action" /\ OldTop.lookups = <<>>
                \/ /\ Top.at = "action" /\ Top.i < Allowed(CurStep)
                   /\ Len(OldTop.lookups) = Len(Top.lookups) + 1
                   /\ OldTop.lookups =
                         Append(Top.lookups, OldTop.lookups[Len(OldTop.lookups)])
                   /\ WalkFromRoot(OldTop.lookups[Len(OldTop.lookups)], CurStep.path)
       /\ (InAttemptLoop /\ CurStep.path # <<>>) => Len(Top.lookups) = Top.i
       /\ (InAttemptLoop /\ CurStep.path # <<>> /\ stack' # stack
              /\ Top.i < Top.attempts)
             => Len(OldTop.lookups) = Len(Top.lookups) + 1]_vars

\* a step whose path goes through a tab item has failed two attempts under
\* Retry: the path was resolved twice, each time from the main window
C29_Witness ==
    /\ InAttemptLoop
    /\ CurStep.path = TabPath
    /\ CurStep.onError.method = "retry"
    /\ Top.i = 2
    /\ Top.lookups = <<<<0>>, <<0>>>>

---------------------------------------------------------------------------
(* C30: the surface dying is observed at the head of a step only *)

\* the surface has died while the attempt loop of an action step is running
DiedInFlight == InAttemptLoop /\ ~alive

\* C30: when the surface dies while an action step is in flight the step goes
\* on as if it had not: every attempt the policy has left is made and the
\* result of the step is recorded, with no target-lost error; the target-lost
\* error is raised only at the liveness check at the head of a step, which
\* leaves the trace and the position as they are, and with the surface dead no
\* step is started.
C30_AbortAtStepBoundary ==
    [][/\ (DiedInFlight /\ <<stack, results, exc>>' # <<stack, results, exc>>)
             => /\ exc' # "TargetAppClosedError"
                /\ IF Top.i < Top.attempts
                   THEN \/ /\ OldTop.at = "action" /\ OldTop.i = Top.i + 1
                           /\ results' = results /\ exc' = "none"
                        \/ /\ results'.steps =
                                 Append(results.steps, Entry(CurStep, Top, "success", ""))
                           /\ ResumesAt(Top.pc + 1)
                   ELSE results'.steps =
                           Append(results.steps,
                                  Entry(CurStep, Top, "failure", Top.last_exception))
       /\ (exc = "none" /\ exc' = "TargetAppClosedError")
             => (AtStep /\ ~alive /\ stack' = stack /\ results' = results)
       /\ (AtStep /\ ~alive /\ <<stack, results, exc, runtime_variables>>'
                               # <<stack, results, exc, runtime_variables>>)
             => (exc' = "TargetAppClosedError" /\ stack' = stack /\ results' = results
                 /\ runtime_variables' = runtime_variables)]_vars

\* the surface died during a step under Retry that has failed once and has
\* attempts left
C30_Witness ==
    /\ DiedInFlight
    /\ CurStep.onError.method = "retry"
    /\ Top.i >= 1 /\ Top.i < Top.attempts

---------------------------------------------------------------------------
(* C31, C32: the condition of an if_condition *)

\* C31: a condition of type element_vanishes is true exactly when the target
\* element is absent from the surface.
C31_VanishesTrueWhenAbsent ==
    (call.done /\ call.condition.type = "element_vanishes" /\ call.exc = "none")
        => call.result = ~call.exists

\* the placeholder the target of the condition consists of, if it is one
OnlyPlaceholder(target) == Len(target) = 1 /\ target[1].ph

\* C32: a placeholder in the target of an if_condition whose name is bound in
\* the data row of the iteration only (not in the Variable Store) is replaced
\* by the row's value.
C32_ConditionTargetFromRow ==
    (/\ call.done
     /\ OnlyPlaceholder(call.condition.target)
     /\ ~call.data_row.isNone
     /\ call.data_row.cols[call.condition.target[1].s] # Undef
     /\ runtime_variables[call.condition.target[1].s] = Undef)
        => (/\ call.exc = "none"
            /\ call.resolved_target = call.data_row.cols[call.condition.target[1].s])

---------------------------------------------------------------------------
(* C33: the status of a terminated run *)

\* run_scenario has returned or raised
Terminated == phase \in {"returned", "raised"}

\* C33: when run_scenario has terminated the status is Success or Failure,
\* never In Progress: Failure exactly when an error left the top-level step
\* list and run_scenario raised it, Success otherwise, whatever the number of
\* failed steps in the trace.
C33_StatusOfTerminatedRun ==
    [][/\ Terminated' =>
             /\ results'.summary.status \in {"Success", "Failure"}
             /\ results'.summary.status = "Failure" <=> phase' = "raised"
             /\ phase' = "raised" <=> exc' # "none"
       /\ (phase = "running" /\ Terminated') =>
             /\ stack = <<>>
             /\ exc' = exc
             /\ results'.steps = results.steps
             /\ results'.summary.failed_steps = Count(results.steps, "failure")]_vars

\* a run has returned with status Success and a failed step in its trace
C33_Witness ==
    /\ phase = "returned"
    /\ results.summary.status = "Success"
    /\ results.summary.failed_steps > 0

---------------------------------------------------------------------------
(* C34: action names the executor does not handle *)

\* an attempt of an action step whose name has no branch in _execute_action
AtUnhandledAction ==
    /\ InAttemptLoop /\ Top.i < Top.attempts
    /\ CurStep.action \notin {"click", "double_click", "set_text", "get_text"}

\* every level of the path has an identifier
WellDescribed(path) ==
    path # <<>> /\ \A k \in 1..Len(path) : HasCriteria(path[k])

\* C34: an attempt of an action step with an unhandled action name resolves
\* the element of the step and does nothing to it: the Variable Store and the
\* text of the element stay as they are, and the attempt ends with a Success
\* StepResult; it fails only if the element does not show up (or the path
\* lacks an identifier), never because of an action.
C34_UnhandledActionSucceeds ==
    [][(AtUnhandledAction /\ stack' # stack)
          => /\ runtime_variables' = runtime_variables
             /\ element_text' = element_text
             /\ CurStep.path # <<>>
                   => Len(OldTop.lookups) = Len(Top.lookups) + 1
             /\ \/ /\ results'.steps =
                         Append(results.steps, Entry(CurStep, Top, "success", ""))
                   /\ ResumesAt(Top.pc + 1)
                \/ /\ results' = results
                   /\ OldTop.at = "action" /\ OldTop.i = Top.i + 1
                   /\ \/ OldTop.last_exception = "TimeoutError"
                      \/ /\ OldTop.last_exception = "ValueError"
                         /\ ~WellDescribed(CurStep.path)]_vars

\* a step with the action name hover has been executed after a get_text: its
\* Success is the last entry of the trace and the store holds what it held
C34_Witness ==
    /\ Running /\ Top.at = "step" /\ Top.pc = 2
    /\ At(Top.steps, 1).type = "action" /\ At(Top.steps, 1).action = "hover"
    /\ Len(results.steps) = 2
    /\ LastResult = Entry(At(Top.steps, 1), Top, "success", "")
    /\ InDict(runtime_variables, "x") /\ ~InDict(runtime_variables, "y")
    /\ Top.lookups = <<<<0>>>>

---------------------------------------------------------------------------
(* C35: errors of a catch-body *)

\* an error is leaving the catch-body of a try block
EscapesCatchBody ==
    /\ phase = "running" /\ exc # "none" /\ Len(stack) >= 2 /\ Caller.at = "catch"

\* an error is leaving the step list whose try block called the catch-body
LeavesCatchingList ==
    /\ phase = "running" /\ exc # "none" /\ stack # <<>> /\ Top.at = "catch"

\* C35: an error leaving a catch-body is not swallowed by its try block: it
\* leaves the invocation of the catch-body and then the step list the try
\* block is in, which is not resumed after the try_catch_end; only a try block
\* around that list, waiting in its try-body, intercepts it.
C35_CatchBodyErrorPropagates ==
    [][/\ (EscapesCatchBody /\ stack' # stack)
             => (/\ exc' = exc
                 /\ results' = results
                 /\ stack' = Pop(stack))
       /\ (LeavesCatchingList /\ stack' # stack)
             => (/\ results' = results
                 /\ Pop(stack') # Pop(stack) \/ Len(stack') # Len(stack)
                 /\ IF Len(stack) >= 2 /\ Caller.at = "try"
                    THEN exc' = "none"
                    ELSE exc' = exc /\ stack' = Pop(stack))]_vars

\* the action of a catch-body failed under Stop: the run has raised, the
\* Failure of that action ends the trace and the step after the try_catch_end
\* was not executed
C35_Witness ==
    /\ phase = "raised"
    /\ Len(scenario) = 7
    /\ IsControl(scenario[4], "catch_separator")
    /\ IsControl(scenario[6], "try_catch_end")
    /\ results.steps # <<>>
    /\ LastResult.id = scenario[5].id
    /\ LastResult.status = "failure"
    /\ results.summary.status = "Failure"

---------------------------------------------------------------------------
(* C36: nested try blocks *)

\* an error is leaving the try-body of a try block that is itself executed in
\* the try-body of another try block
EscapesInnerTryBody ==
    /\ EscapesTryBody
    /\ \E k \in 1..(Len(stack) - 2) : stack[k].at = "try"

\* C36: an error leaving the try-body of an inner try block is swallowed there
\* and no enclosing try block sees it: the invocations around the inner block
\* stay as they are, waiting in their try-bodies, the inner block calls its
\* catch-body or is resumed after its try_catch_end, and an invocation turns
\* to its catch-body only for an error that left its own try-body.
C36_InnerTryHidesError ==
    [][/\ (EscapesInnerTryBody /\ stack' # stack)
             => (/\ exc' = "none"
                 /\ SubSeq(stack', 1, Len(stack) - 2) = SubSeq(stack, 1, Len(stack) - 2)
                 /\ IF TryCatch # -1
                    THEN /\ Len(stack') = Len(stack)
                         /\ stack'[Len(stack) - 1].at = "catch"
                    ELSE CallerResumesAt(TryEnd + 1))
       /\ \A k \in 1..Len(stack) :
             (k <= Len(stack') /\ stack[k].at = "try" /\ stack'[k].at = "catch")
                => (k = Len(stack) - 1 /\ exc # "none")]_vars

\* the action of an inner try block without catch-body failed under Stop and
\* the enclosing try-body goes on with the step after the inner try_catch_end,
\* the enclosing block still in its try-body
C36_Witness ==
    /\ Running /\ Len(stack) = 2
    /\ stack[1].at = "try" /\ stack[1].sep_index # -1
    /\ Top.at = "step" /\ Top.pc = 3 /\ Len(Top.steps) = 4
    /\ IsControl(At(Top.steps, 0), "try_catch_start")
    /\ IsControl(At(Top.steps, 2), "try_catch_end")
    /\ results.steps # <<>>
    /\ LastResult = Entry(At(Top.steps, 1), Top, "failure", LastResult.details)

---------------------------------------------------------------------------
(* C37: an error in a data row *)

\* an error has left the step list executed for the data row row_i
EscapedRow ==
    /\ phase = "running" /\ data_driven /\ exc # "none" /\ stack = <<>>

\* C37: in a data-driven run an error that leaves the step list during row k
\* ends the run: the next step is the end of run_scenario with status Failure
\* and the error raised, no further row is started, and the trace holds no
\* entry of an iteration after k, then and at any time of the run.
C37_RowErrorAbortsRun ==
    [][/\ (EscapedRow /\ <<phase, stack, results, exc, row_i>>'
                         # <<phase, stack, results, exc, row_i>>)
             => (/\ phase' = "raised"
                 /\ exc' = exc
                 /\ row_i' = row_i
                 /\ stack' = <<>>
                 /\ results'.steps = results.steps
                 /\ results'.summary.status = "Failure")
       /\ (data_driven' /\ phase' \in {"running", "raised"})
             => \A k \in 1..Len(results'.steps) : results'.steps[k].iteration <= row_i']_vars

\* a run over a file of at least two rows has raised in its first row
C37_Witness ==
    /\ phase = "raised" /\ data_driven
    /\ row_i = 1 /\ Len(data_rows) >= 2
    /\ results.steps # <<>>
    /\ \A k \in 1..Len(results.steps) : results.steps[k].iteration = 1
    /\ results.summary.status = "Failure"

---------------------------------------------------------------------------
(* C38: Retry with retries = 0 *)

\* _execute_action is at a step whose policy is Retry with retries = 0
AtRetryZero ==
    /\ InAttemptLoop
    /\ CurStep.onError.method = "retry" /\ CurStep.onError.retries = <<0>>

\* C38: an action step under Retry with retries = 0 is not attempted: no
\* resolution is made and the surface and the Variable Store stay as they
\* are, one Failure StepResult without an error is appended for the step, and
\* the list goes on with the next step.
C38_RetryZeroNeverAttempts ==
    [][/\ AtRetryZero => (Top.i = 0 /\ Top.lookups = <<>>)
       /\ (AtRetryZero /\ <<stack, results, exc, runtime_variables, element_text,
                            tab_selected>>'
                          # <<stack, results, exc, runtime_variables, element_text,
                              tab_selected>>)
             => (/\ results'.steps =
                       Append(results.steps, Entry(CurStep, Top, "failure", "None"))
                 /\ UNCHANGED <<runtime_variables, element_text, tab_selected>>
                 /\ exc' = "none"
                 /\ ResumesAt(Top.pc + 1)
                 /\ NewTop.lookups = <<>>)]_vars

\* the step under Retry with retries = 0 has been passed: its Failure is the
\* second entry of the trace, after the Success of the get_text, and the tab
\* on its path was never selected
C38_Witness ==
    /\ Running /\ Top.at = "step" /\ Top.pc = 2
    /\ At(Top.steps, 1).onError = Retry(0)
    /\ Len(results.steps) = 2
    /\ LastResult = Entry(At(Top.steps, 1), Top, "failure", "None")
    /\ ~tab_selected

---------------------------------------------------------------------------
(* C39: at most one worker per slot *)

\* the worker of a slot is busy: it is in running_workers
Busy(slot_index) == running_workers[slot_index] # NoWorker

\* C39: a slot holds at most one worker at a time: a worker is started only in
\* a slot that holds none, and whatever is requested for a busy slot, by its run
\* button, the toolbar or a log trigger, the slot keeps the worker it has, with
\* the scenario it was started with, until that worker has finished and is
\* removed
C39_OneWorkerPerSlot ==
    [][\A s \in Slots :
          /\ running_workers'[s].at = "start" /\ running_workers'[s] # running_workers[s]
                => ~Busy(s)
          /\ Busy(s) /\ running_workers'[s] # running_workers[s]
                => \/ /\ running_workers[s].at = "emit"
                      /\ running_workers'[s] = NoWorker
                   \/ /\ running_workers[s].at \in {"start", "run"}
                      /\ running_workers'[s].scenario_data
                            = running_workers[s].scenario_data
                      /\ running_workers'[s].at \in {"run", "emit", "died"}]_vars

\* the worker of a slot has recorded its step and has not ended yet, while the
\* other slot has just been started with the other scenario: requests for both
\* slots find them busy
C39_Witness ==
    /\ running_workers[0].at = "run"
    /\ running_workers[0].runner.results.steps # <<>>
    /\ running_workers[1].at = "start"
    /\ running_workers[1].scenario_data # running_workers[0].scenario_data

---------------------------------------------------------------------------
(* C40: a worker whose run ends emits its finished signal *)

\* ScenarioWorker.run of the slot's worker has ended
RunEnded(slot_index) == running_workers[slot_index].at \in {"emit", "died"}

\* C40: every started worker whose run has ended has emitted its finished
\* signal exactly once, whether connecting, running or reporting succeeded or
\* failed, so that its slot is removed from running_workers on that signal and
\* accepts a new run request
C40_EndedWorkerEmittedOnce ==
    \A s \in Slots : RunEnded(s) => running_workers[s].emitted = 1

====
